---- MODULE Spec2Model ----
(***************************************************************************)
(* A model of the faas-netes StatefulSet control plane:                    *)
(*   - pkg/controller/informers.go   RegisterEventHandlers, applyValidation*)
(*     (the replica guard driven by informer notifications)                *)
(*   - pkg/handlers/update.go        updateStatefulSetSpec (the explicit   *)
(*     update path: get, mutate, one conditional write)                    *)
(*   - pkg/controller/statefulset.go newStatefulSet (synthesis)            *)
(* The Kubernetes API server is the external store: objects carry a        *)
(* resource version, an Update carrying a stale version is a conflict.     *)
(***************************************************************************)
EXTENDS Integers, Sequences, FiniteSets, TLC

(***************************************************************************)
(* Bounds of the model.                                                    *)
(***************************************************************************)
\* how far above MaxReplicas an observed replica count may lie
MaxOver == 1
\* writes by writers other than this program (autoscaler, kubectl), in total
MaxExternalWrites == 1
\* update requests served by the HTTP handler
MaxRequests == 1
\* calls of the FunctionFactory's operations on one StatefulSet
MaxCalls == 3
\* reconciles of one function, each starting from the result of the last
MaxRuns == 2

(***************************************************************************)
(* Program constants.                                                      *)
(***************************************************************************)
\* handlers.MaxReplicas, the scale ceiling read at informers.go:66-67. Its
\* declaration is not among the sources; the guard only needs it to be a
\* positive integer.
MaxReplicas == 2

\* the StatefulSets of the namespace handed to RegisterEventHandlers
\* (informers.go:18, 40), and the order in which the lister returns them
Workloads == {"w1", "w2"}
WorkloadOrder == <<"w1", "w2">>

\* An optional value (a Go pointer) is a sequence of length at most one.
Nil == <<>>
Some(x) == <<x>>

ReplicaValues == 0..(MaxReplicas + MaxOver)
OptReplicas == {Nil} \cup {Some(r) : r \in ReplicaValues}

(***************************************************************************)
(* Label values are strings, modelled as sequences of characters.          *)
(***************************************************************************)
DigitChars == <<"0", "1", "2", "3", "4", "5", "6", "7", "8", "9">>

IsDigit(c) == \E d \in 1..10 : DigitChars[d] = c

DigitValue(c) == (CHOOSE d \in 1..10 : DigitChars[d] = c) - 1

RECURSIVE DecimalValue(_)
DecimalValue(s) ==
    IF s = <<>> THEN 0
    ELSE 10 * DecimalValue(SubSeq(s, 1, Len(s) - 1)) + DigitValue(s[Len(s)])

\* strconv.Atoi restricted to unsigned numerals: Nil is the parse error
Atoi(s) ==
    IF s # <<>> /\ \A i \in 1..Len(s) : IsDigit(s[i]) THEN Some(DecimalValue(s)) ELSE Nil

\* the values a minimum-replicas label takes in the model: numerals of
\* positive numbers, with and without a leading zero, and malformed strings
LabelValues ==
    {<<"1">>, <<"2">>, <<"3">>, <<"4">>, <<"0", "2">>, <<"1", "0">>,
     <<"x">>, <<"2", "x">>, <<>>}
OptLabel == {Nil} \cup {Some(v) : v \in LabelValues}

VARIABLES
    store,      \* the store: workload name -> StatefulSet
    writers,    \* history: writers[n][v] is who produced revision v of n
    queue,      \* notifications delivered to the listener, not yet handled
    delivered,  \* history: number of notifications ever put on queue
    calls,      \* history: applyValidation invocations made, per caller
    inv,        \* the applyValidation invocation in flight, per caller
    last,       \* history: the last completed invocation, per caller
    sweep,      \* RegisterEventHandlers' position in its list loop; history:
                \* sweep.wrote[n], the replica counts of its Update calls for n
    upd,        \* updateStatefulSetSpec's position and locals
    extWrites,  \* number of writes by other writers so far
    synth,      \* a call of newStatefulSet: its arguments and its result
    factory,    \* a StatefulSet under the FunctionFactory's operations
    sig,        \* a spec signature being written and compared
    hnd,        \* a request in MakeUpdateHandler: its position, locals and calls
    pipe        \* a function taken through newStatefulSet, run after run

\* the variables of the running system (store, guard, update path)
sysVars == <<store, writers, queue, delivered, calls, inv, last, sweep, upd, extWrites>>

vars == <<sysVars, synth, factory, sig, hnd, pipe>>

\* the two callers of applyValidation: the informer's listener goroutine
\* (AddFunc/UpdateFunc) and the goroutine running RegisterEventHandlers
Callers == {"handler", "sweep"}

(***************************************************************************)
(* The store (external collaborator).                                      *)
(***************************************************************************)
\* StatefulSets(ns).Update: an object carrying a resource version other than
\* the stored one is rejected with a conflict; an empty version (0) is an
\* unconditional update; any call may fail for another reason.
StoreUpdateErr(obj, fails) ==
    IF fails THEN "error"
    ELSE IF obj.rv # 0 /\ obj.rv # store[obj.name].rv THEN "conflict"
    ELSE "none"

\* the object the store holds after a successful Update of obj
StoreApply(obj) ==
    [obj EXCEPT !.rv = store[obj.name].rv + 1]

\* the notification the informer delivers to its listener: an add carries
\* the object, an update the object before (oldObj) and after (newObj)
AddNotification(obj) == [kind |-> "add", newObj |-> obj]

UpdateNotification(oldObj, newObj) == [kind |-> "update", oldObj |-> oldObj, newObj |-> newObj]

\* a successful Update of obj: the store takes the object under the next
\* resource version and the change reaches the informer's listener
StoreWrite(obj, writer) ==
    /\ store' = [store EXCEPT ![obj.name] = StoreApply(obj)]
    /\ writers' = [writers EXCEPT ![obj.name] = Append(@, writer)]
    /\ queue' = Append(queue, UpdateNotification(store[obj.name], StoreApply(obj)))
    /\ delivered' = delivered + 1

(***************************************************************************)
(* applyValidation, informers.go:53-85                                     *)
(***************************************************************************)
\* applyValidation with 0 replicas treated as in bounds
applyValidationCloneKeepZero(statefulset) ==
    IF statefulset.replicas = Nil THEN Nil
    ELSE IF ~statefulset.marker THEN Nil
    ELSE IF statefulset.replicas[1] > MaxReplicas
      THEN Some([statefulset EXCEPT !.replicas = Some(MaxReplicas)])
    ELSE Nil

\* applyValidation clamping to the observed count instead of the ceiling
applyValidationCloneNoClamp(statefulset) ==
    IF statefulset.replicas = Nil THEN Nil
    ELSE IF ~statefulset.marker THEN Nil
    ELSE IF statefulset.replicas[1] = 0
      THEN Some([statefulset EXCEPT !.replicas = Some(1)])
    ELSE IF statefulset.replicas[1] > MaxReplicas
      THEN Some(statefulset)
    ELSE Nil

\* applyValidation comparing with >= instead of >
applyValidationCloneAtCeiling(statefulset) ==
    IF statefulset.replicas = Nil THEN Nil
    ELSE IF ~statefulset.marker THEN Nil
    ELSE IF statefulset.replicas[1] = 0
      THEN Some([statefulset EXCEPT !.replicas = Some(1)])
    ELSE IF statefulset.replicas[1] >= MaxReplicas
      THEN Some([statefulset EXCEPT !.replicas = Some(MaxReplicas)])
    ELSE Nil

\* applyValidation without the check of the faas_function label
applyValidationCloneAnyLabel(statefulset) ==
    IF statefulset.replicas = Nil THEN Nil
    ELSE IF statefulset.replicas[1] = 0
      THEN Some([statefulset EXCEPT !.replicas = Some(1)])
    ELSE IF statefulset.replicas[1] > MaxReplicas
      THEN Some([statefulset EXCEPT !.replicas = Some(MaxReplicas)])
    ELSE Nil

\* applyValidation sending a clone without the observed resource version
applyValidationCloneNoVersion(statefulset) ==
    IF statefulset.replicas = Nil THEN Nil
    ELSE IF ~statefulset.marker THEN Nil
    ELSE IF statefulset.replicas[1] = 0
      THEN Some([statefulset EXCEPT !.replicas = Some(1), !.rv = 0])
    ELSE IF statefulset.replicas[1] > MaxReplicas
      THEN Some([statefulset EXCEPT !.replicas = Some(MaxReplicas), !.rv = 0])
    ELSE Nil

\* applyValidation sending a clone that has lost the faas_function label
applyValidationCloneRelabelled(statefulset) ==
    IF statefulset.replicas = Nil THEN Nil
    ELSE IF ~statefulset.marker THEN Nil
    ELSE IF statefulset.replicas[1] = 0
      THEN Some([statefulset EXCEPT !.replicas = Some(1), !.marker = FALSE])
    ELSE IF statefulset.replicas[1] > MaxReplicas
      THEN Some([statefulset EXCEPT !.replicas = Some(MaxReplicas), !.marker = FALSE])
    ELSE Nil

\* applyValidation correcting 0 replicas to a count above the ceiling
applyValidationCloneOvershoot(statefulset) ==
    IF statefulset.replicas = Nil THEN Nil
    ELSE IF ~statefulset.marker THEN Nil
    ELSE IF statefulset.replicas[1] = 0
      THEN Some([statefulset EXCEPT !.replicas = Some(MaxReplicas + 1)])
    ELSE IF statefulset.replicas[1] > MaxReplicas
      THEN Some([statefulset EXCEPT !.replicas = Some(MaxReplicas)])
    ELSE Nil

\* informers.go:54-74: the early returns and the clone that is sent.
\* Nil: the function returned nil without a write.
applyValidationClone(statefulset) ==
    IF statefulset.replicas = Nil THEN Nil
    ELSE IF ~statefulset.marker THEN Nil
    ELSE LET current == statefulset.replicas[1] IN
         IF current = 0
           THEN Some([statefulset EXCEPT !.replicas = Some(1)])
         ELSE IF current > MaxReplicas
           THEN Some([statefulset EXCEPT !.replicas = Some(MaxReplicas)])
         ELSE Nil

\* applyValidation returning the conflict like any other error
applyValidationReturnConflictFails(updateErr) ==
    IF updateErr = "none" THEN "nil" ELSE "error"

\* informers.go:76-84: what applyValidation returns for the Update's error
applyValidationReturn(updateErr) ==
    IF updateErr = "none" THEN "nil"
    ELSE IF updateErr = "conflict" THEN "nil"
    ELSE "error"

Idle == [pc |-> "idle"]

NoCall == [valid |-> FALSE]

\* a caller enters applyValidation with an observed object
Enter(p, via, obj) ==
    LET clone == applyValidationClone(obj) IN
    /\ calls' = [calls EXCEPT ![p] = @ + 1]
    /\ IF clone = Nil
         THEN /\ inv' = [inv EXCEPT ![p] = Idle]
              /\ last' = [last EXCEPT ![p] =
                    [valid |-> TRUE, via |-> via, obs |-> obj, attempts |-> 0,
                     sent |-> Nil, updateErr |-> "none", ret |-> "nil"]]
         ELSE /\ inv' = [inv EXCEPT ![p] =
                    [pc |-> "update", via |-> via, obs |-> obj, clone |-> clone[1]]]
              /\ last' = last

\* informers.go:76-77: the Update call of the invocation in flight returns
CallUpdate(p) ==
    /\ inv[p].pc = "update"
    /\ \E fails \in BOOLEAN :
        LET clone == inv[p].clone
            err == StoreUpdateErr(clone, fails) IN
        /\ IF err = "none"
             THEN StoreWrite(clone, p)
             ELSE UNCHANGED <<store, writers, queue, delivered>>
        /\ last' = [last EXCEPT ![p] =
              [valid |-> TRUE, via |-> inv[p].via, obs |-> inv[p].obs,
               attempts |-> 1, sent |-> Some(clone), updateErr |-> err,
               ret |-> applyValidationReturn(err)]]
    /\ inv' = [inv EXCEPT ![p] = Idle]

(***************************************************************************)
(* RegisterEventHandlers, informers.go:18-51                               *)
(***************************************************************************)
\* informers.go:21, 25: AddFunc passes the added object to applyValidation
AddFuncArg(note) == note.newObj

\* UpdateFunc validating the old object of the notification
UpdateFuncArgOld(note) == note.oldObj

\* informers.go:30, 34: UpdateFunc passes the new object to applyValidation
UpdateFuncArg(note) == note.newObj

\* informers.go:20-28. The listener runs its callbacks one at a time, in the
\* order of the notifications.
AddFunc ==
    /\ inv["handler"].pc = "idle"
    /\ queue # <<>>
    /\ Head(queue).kind = "add"
    /\ Enter("handler", "add", AddFuncArg(Head(queue)))
    /\ queue' = Tail(queue)
    /\ UNCHANGED <<store, writers, delivered, sweep, upd, extWrites, synth, factory, sig, hnd, pipe>>

\* informers.go:29-37
UpdateFunc ==
    /\ inv["handler"].pc = "idle"
    /\ queue # <<>>
    /\ Head(queue).kind = "update"
    /\ Enter("handler", "update", UpdateFuncArg(Head(queue)))
    /\ queue' = Tail(queue)
    /\ UNCHANGED <<store, writers, delivered, sweep, upd, extWrites, synth, factory, sig, hnd, pipe>>

\* informers.go:25-27, 34-36: the Update call made for a notification returns
HandlerUpdate ==
    /\ CallUpdate("handler")
    /\ UNCHANGED <<calls, sweep, upd, extWrites, synth, factory, sig, hnd, pipe>>

\* a list that holds the labelled StatefulSets only
ListLabelled(objects) ==
    [i \in 1..Len(SelectSeq(WorkloadOrder, LAMBDA n : objects[n].marker)) |->
        objects[SelectSeq(WorkloadOrder, LAMBDA n : objects[n].marker)[i]]]

\* informers.go:40: Lister().StatefulSets(namespace).List(labels.Everything())
\* over the objects the informer holds
List(objects) ==
    [i \in 1..Len(WorkloadOrder) |-> objects[WorkloadOrder[i]]]

\* informers.go:46-47: the loop body enters applyValidation
SweepCall ==
    /\ sweep.pc = "loop"
    /\ inv["sweep"].pc = "idle"
    /\ sweep.i <= Len(sweep.list)
    /\ Enter("sweep", "sweep", sweep.list[sweep.i])
    /\ sweep' = [sweep EXCEPT !.i = @ + 1]
    /\ UNCHANGED <<store, writers, queue, delivered, upd, extWrites, synth, factory, sig, hnd, pipe>>

\* informers.go:47-49: the Update call made for a listed object returns
SweepUpdate ==
    /\ CallUpdate("sweep")
    /\ sweep' = [sweep EXCEPT !.wrote[inv["sweep"].clone.name] =
                    Append(@, inv["sweep"].clone.replicas)]
    /\ UNCHANGED <<calls, upd, extWrites, synth, factory, sig, hnd, pipe>>

\* informers.go:50-51: the loop is over and RegisterEventHandlers returns
SweepReturn ==
    /\ sweep.pc = "loop"
    /\ inv["sweep"].pc = "idle"
    /\ sweep.i > Len(sweep.list)
    /\ sweep' = [sweep EXCEPT !.pc = "done"]
    /\ UNCHANGED <<store, writers, queue, delivered, calls, inv, last, upd, extWrites, synth, factory, sig, hnd, pipe>>

(***************************************************************************)
(* Another writer of the store (an autoscaler, an operator's kubectl).     *)
(***************************************************************************)
ExternalWrite ==
    /\ extWrites < MaxExternalWrites
    /\ \E n \in Workloads, r \in ReplicaValues :
        LET obj == [store[n] EXCEPT !.replicas = Some(r)] IN
        StoreWrite(obj, "other")
    /\ extWrites' = extWrites + 1
    /\ UNCHANGED <<calls, inv, last, sweep, upd, synth, factory, sig, hnd, pipe>>

(***************************************************************************)
(* updateStatefulSetSpec, update.go:93-203                                 *)
(***************************************************************************)
\* getMinReplicaCount(*request.Labels), called at update.go:128: the declared
\* minimum, absent when the label is missing or malformed
getMinReplicaCount(minLabel) ==
    IF minLabel = Nil THEN Nil ELSE Atoi(minLabel[1])

\* a mutation that leaves the fetched replica count alone
updateMutateKeepReplicas(statefulset, request) ==
    [statefulset EXCEPT !.marker = TRUE]

\* update.go:110-145: the in-memory mutation of the fetched StatefulSet, as
\* far as the replica count and the pod-template labels go
updateMutate(statefulset, request) ==
    LET min == getMinReplicaCount(request.minLabel) IN
    [statefulset EXCEPT !.replicas = IF min # Nil THEN min ELSE @,
                        !.marker = TRUE]

\* the steps between the mutation and the write that can fail, update.go:147-189
PreWriteErrors == {"none", "resources", "secrets", "probes", "profiles"}

\* the minimum-replicas labels of the update requests of the model
RequestLabels == {Nil, Some(<<"1">>), Some(<<"3">>), Some(<<"x">>)}

Requests == [service : Workloads \cup {"missing"}, minLabel : RequestLabels]

\* update.go:100-108: the Get
UpdateGet ==
    /\ upd.pc \in {"idle", "done"}
    /\ upd.n < MaxRequests
    /\ \E request \in Requests :
        IF request.service \in Workloads
          THEN upd' = [pc |-> "got", n |-> upd.n + 1, request |-> request,
                       statefulset |-> store[request.service]]
          ELSE upd' = [pc |-> "done", n |-> upd.n + 1, request |-> request,
                       wrote |-> FALSE, err |-> "notfound", status |-> 404]
    /\ UNCHANGED <<store, writers, queue, delivered, calls, inv, last, sweep, extWrites, synth, factory, sig, hnd, pipe>>

\* an update that goes on to the Update call after the secrets step failed
UpdateWriteDespiteSecretsError ==
    /\ upd.pc = "got"
    /\ \E preErr \in PreWriteErrors, fails \in BOOLEAN :
        LET obj == updateMutate(upd.statefulset, upd.request)
            err == StoreUpdateErr(obj, fails) IN
        IF preErr \notin {"none", "secrets"}
          THEN /\ upd' = [pc |-> "done", n |-> upd.n, request |-> upd.request,
                          wrote |-> FALSE, err |-> preErr, status |-> 400]
               /\ UNCHANGED <<store, writers, queue, delivered>>
          ELSE /\ upd' = [pc |-> "done", n |-> upd.n, request |-> upd.request,
                          wrote |-> TRUE, fetched |-> upd.statefulset.rv,
                          existing |-> upd.statefulset.replicas,
                          sent |-> obj,
                          err |-> IF preErr = "secrets" THEN preErr ELSE err,
                          status |-> IF err = "none" THEN 202 ELSE 500]
               /\ IF err = "none"
                    THEN StoreWrite(obj, "update")
                    ELSE UNCHANGED <<store, writers, queue, delivered>>
    /\ UNCHANGED <<calls, inv, last, sweep, extWrites, synth, factory, sig, hnd, pipe>>

\* update.go:110-203: the mutation, the steps that can fail, and the Update
UpdateWrite ==
    /\ upd.pc = "got"
    /\ \E preErr \in PreWriteErrors, fails \in BOOLEAN :
        LET obj == updateMutate(upd.statefulset, upd.request)
            err == StoreUpdateErr(obj, fails) IN
        IF preErr # "none"
          THEN /\ upd' = [pc |-> "done", n |-> upd.n, request |-> upd.request,
                          wrote |-> FALSE, err |-> preErr, status |-> 400]
               /\ UNCHANGED <<store, writers, queue, delivered>>
          ELSE /\ upd' = [pc |-> "done", n |-> upd.n, request |-> upd.request,
                          wrote |-> TRUE, fetched |-> upd.statefulset.rv,
                          existing |-> upd.statefulset.replicas,
                          sent |-> obj, err |-> err,
                          status |-> IF err = "none" THEN 202 ELSE 500]
               /\ IF err = "none"
                    THEN StoreWrite(obj, "update")
                    ELSE UNCHANGED <<store, writers, queue, delivered>>
    /\ UNCHANGED <<calls, inv, last, sweep, extWrites, synth, factory, sig, hnd, pipe>>

(***************************************************************************)
(* newStatefulSet, statefulset.go:25-156                                   *)
(***************************************************************************)
\* the minimum declared by the function's min-replicas label
\* (LabelMinReplicas in replicas_test.go:34), absent when the label is
\* missing or malformed
declaredMin(function) ==
    IF function.minLabel = Nil THEN Nil ELSE Atoi(function.minLabel[1])

\* getReplicas(function, existingStatefulSet), called at statefulset.go:65.
\* Its body is not among the sources: the rule is the replica policy of the
\* design, except that an existing count of 0 is kept, which is what
\* Test_Replicas pins down (replicas_test.go:56-61).
getReplicas(function, existingStatefulSet) ==
    LET min == declaredMin(function)
        existing == IF existingStatefulSet = Nil THEN Nil
                    ELSE existingStatefulSet[1].replicas
    IN  IF min = Nil /\ existing = Nil THEN Nil
        ELSE IF existing = Nil THEN min
        ELSE IF existing[1] = 0 THEN existing
        ELSE IF min = Nil THEN existing
        ELSE IF existing[1] >= min[1] THEN existing
        ELSE min

\* newStatefulSet keeping the existing replica count whatever the function declares
newStatefulSetKeepExisting(function, existingStatefulSet) ==
    [replicas |-> IF existingStatefulSet = Nil THEN Nil
                  ELSE existingStatefulSet[1].replicas]

\* newStatefulSet not handing the existing StatefulSet to getReplicas
newStatefulSetNoExisting(function, existingStatefulSet) ==
    [replicas |-> getReplicas(function, Nil)]

\* statefulset.go:51-109, 155: the StatefulSet that newStatefulSet returns
newStatefulSet(function, existingStatefulSet) ==
    [replicas |-> getReplicas(function, existingStatefulSet)]

Functions == [minLabel : OptLabel]

ExistingStatefulSets == {Nil} \cup {Some([replicas |-> r]) : r \in OptReplicas}

\* replicas_test.go:72: deploy := newStatefulSet(s.function, s.deploy, nil, factory)
Synthesize ==
    /\ synth.pc = "call"
    /\ synth' = [synth EXCEPT !.pc = "done",
                    !.deploy = newStatefulSet(synth.function, synth.existing)]
    /\ UNCHANGED <<sysVars, factory, sig, hnd, pipe>>

(***************************************************************************)
(* The FunctionFactory's operations on a StatefulSet's pod template:       *)
(* securityContext_test.go:205-268 and the secrets step.                   *)
(***************************************************************************)
\* securityContext_test.go:207
SecurityContextUserID == 12000

\* request.Service in the tests (securityContext_test.go:83)
Service == "testfunc"

\* fmt.Sprintf("%s-projected-secrets", request.Service)
\* (secrets_factory_test.go:120)
ProjectedSecrets == "testfunc-projected-secrets"

\* the mount path of the secrets volume (secrets_factory_test.go:269)
secretsMountPath == "/var/openfaas/secrets"

\* securityContext_test.go:252-257
TempVolume == [name |-> "temp", source |-> "emptyDir", sources |-> <<>>]

\* securityContext_test.go:262-265
TempMount == [name |-> "temp", mountPath |-> "/tmp", readOnly |-> FALSE]

\* removeVolume(volumeName, volumes), called at securityContext_test.go:243:
\* the volumes not named volumeName, in their order
removeVolume(volumeName, volumes) ==
    SelectSeq(volumes, LAMBDA v : v.name # volumeName)

\* removeVolumeMount(volumeName, mounts), called at securityContext_test.go:246
removeVolumeMount(volumeName, mounts) ==
    SelectSeq(mounts, LAMBDA m : m.name # volumeName)

\* the temp volume and mount are added without the old ones being removed
ConfigureReadOnlyRootFilesystemAppending(request, statefulset) ==
    [statefulset EXCEPT
        !.securityContext =
            IF @ # Nil
              THEN Some([@[1] EXCEPT !.readOnlyRootFilesystem =
                                        Some(request.readOnlyRootFilesystem)])
              ELSE Some([allowPrivilegeEscalation |-> Nil,
                         readOnlyRootFilesystem |-> Some(request.readOnlyRootFilesystem),
                         runAsUser |-> Nil]),
        !.volumes = IF request.readOnlyRootFilesystem THEN Append(@, TempVolume) ELSE @,
        !.mounts = IF request.readOnlyRootFilesystem THEN Append(@, TempMount) ELSE @]

\* the flag is set only on a security context that is already there
ConfigureReadOnlyRootFilesystemNoContext(request, statefulset) ==
    LET existingVolumes == removeVolume("temp", statefulset.volumes)
        existingMounts == removeVolumeMount("temp", statefulset.mounts) IN
    [statefulset EXCEPT
        !.securityContext =
            IF @ # Nil
              THEN Some([@[1] EXCEPT !.readOnlyRootFilesystem =
                                        Some(request.readOnlyRootFilesystem)])
              ELSE @,
        !.volumes = IF request.readOnlyRootFilesystem
                      THEN Append(existingVolumes, TempVolume) ELSE existingVolumes,
        !.mounts = IF request.readOnlyRootFilesystem
                     THEN Append(existingMounts, TempMount) ELSE existingMounts]

\* the security context is replaced by one that holds the flag alone
ConfigureReadOnlyRootFilesystemFreshContext(request, statefulset) ==
    LET existingVolumes == removeVolume("temp", statefulset.volumes)
        existingMounts == removeVolumeMount("temp", statefulset.mounts) IN
    [statefulset EXCEPT
        !.securityContext =
            Some([allowPrivilegeEscalation |-> Nil,
                  readOnlyRootFilesystem |-> Some(request.readOnlyRootFilesystem),
                  runAsUser |-> Nil]),
        !.volumes = IF request.readOnlyRootFilesystem
                      THEN Append(existingVolumes, TempVolume) ELSE existingVolumes,
        !.mounts = IF request.readOnlyRootFilesystem
                     THEN Append(existingMounts, TempMount) ELSE existingMounts]

\* securityContext_test.go:234-268
ConfigureReadOnlyRootFilesystem(request, statefulset) ==
    LET existingVolumes == removeVolume("temp", statefulset.volumes)
        existingMounts == removeVolumeMount("temp", statefulset.mounts) IN
    [statefulset EXCEPT
        !.securityContext =
            IF @ # Nil
              THEN Some([@[1] EXCEPT !.readOnlyRootFilesystem =
                                        Some(request.readOnlyRootFilesystem)])
              ELSE Some([allowPrivilegeEscalation |-> Nil,
                         readOnlyRootFilesystem |-> Some(request.readOnlyRootFilesystem),
                         runAsUser |-> Nil]),
        !.volumes = IF request.readOnlyRootFilesystem
                      THEN Append(existingVolumes, TempVolume) ELSE existingVolumes,
        !.mounts = IF request.readOnlyRootFilesystem
                     THEN Append(existingMounts, TempMount) ELSE existingMounts]

\* the user id is left as it was when SetNonRootUser is off
ConfigureContainerUserIDKeeping(config, statefulset) ==
    IF config.SetNonRootUser
      THEN [statefulset EXCEPT
              !.securityContext =
                  IF @ = Nil
                    THEN Some([allowPrivilegeEscalation |-> Nil,
                               readOnlyRootFilesystem |-> Nil,
                               runAsUser |-> Some(SecurityContextUserID)])
                    ELSE Some([@[1] EXCEPT !.runAsUser = Some(SecurityContextUserID)])]
      ELSE statefulset

\* securityContext_test.go:211-224
ConfigureContainerUserID(config, statefulset) ==
    LET functionUser == IF config.SetNonRootUser THEN Some(SecurityContextUserID) ELSE Nil IN
    [statefulset EXCEPT
        !.securityContext =
            IF @ = Nil
              THEN Some([allowPrivilegeEscalation |-> Nil,
                         readOnlyRootFilesystem |-> Nil, runAsUser |-> functionUser])
              ELSE Some([@[1] EXCEPT !.runAsUser = functionUser])]

\* existingSecrets of the tests (secrets_factory_test.go:103-106): a pull
\* secret and a generic secret with the key "filename"; "apikey" is a second
\* generic secret
existingSecrets ==
    [n \in {"apikey", "pullsecret", "testsecret"} |->
        IF n = "pullsecret" THEN [type |-> "kubernetes.io/dockercfg", keys |-> {}]
        ELSE IF n = "testsecret" THEN [type |-> "Opaque", keys |-> {"filename"}]
        ELSE [type |-> "Opaque", keys |-> {"key"}]]

\* the secret names of the model in the order of sort.Strings
NameOrder == <<"apikey", "missing", "pullsecret", "testsecret">>

Rank(name) == CHOOSE i \in 1..Len(NameOrder) : NameOrder[i] = name

RECURSIVE Insert(_, _)
Insert(name, sorted) ==
    IF sorted = <<>> THEN <<name>>
    ELSE IF Rank(name) <= Rank(Head(sorted)) THEN <<name>> \o sorted
    ELSE <<Head(sorted)>> \o Insert(name, Tail(sorted))

RECURSIVE SortStrings(_)
\* sort.Strings
SortStrings(names) ==
    IF names = <<>> THEN <<>> ELSE Insert(Head(names), SortStrings(Tail(names)))

RECURSIVE Distinct(_)
\* the names of a list, each once, in the order of their first occurrence
Distinct(names) ==
    IF names = <<>> THEN <<>>
    ELSE <<Head(names)>> \o Distinct(SelectSeq(Tail(names), LAMBDA n : n # Head(names)))

\* request.Secrets as a list: a nil slice ranges like an empty one
requestedSecrets(request) ==
    IF request.secrets = Nil THEN <<>> ELSE request.secrets[1]

\* the secret step with the old projected volumes and mounts left in place
ConfigureSecretsAccumulating(request, statefulset, existing) ==
    LET names == requestedSecrets(request)
        generic == SelectSeq(Distinct(names),
                             LAMBDA n : existing[n].type # "kubernetes.io/dockercfg") IN
    IF \E i \in 1..Len(names) : names[i] \notin DOMAIN existing
      THEN [err |-> TRUE, statefulset |-> statefulset]
      ELSE [err |-> FALSE,
            statefulset |->
              [statefulset EXCEPT
                 !.imagePullSecrets =
                     SelectSeq(Distinct(names),
                               LAMBDA n : existing[n].type = "kubernetes.io/dockercfg"),
                 !.volumes =
                     IF names # <<>>
                       THEN Append(@, [name |-> ProjectedSecrets, source |-> "projected",
                                       sources |-> [i \in 1..Len(generic) |->
                                           [name |-> generic[i],
                                            items |-> existing[generic[i]].keys]]])
                       ELSE @,
                 !.mounts =
                     IF names # <<>>
                       THEN Append(@, [name |-> ProjectedSecrets,
                                       mountPath |-> secretsMountPath, readOnly |-> TRUE])
                       ELSE @]]

\* ConfigureSecrets(request, statefulset, existingSecrets), called at
\* update.go:160 and secrets_factory_test.go:81, 216; UpdateSecrets (called at
\* statefulset.go:149) is the same step on a Function.  Its body is not among
\* the sources: this is the SecretProjector of the design.  A requested name
\* that does not resolve is an error and nothing is changed; otherwise every
\* volume and mount named <service>-projected-secrets is removed and, for a
\* non-empty list, one projected volume (one source per requested generic
\* secret, listing its keys) and one read-only mount are added; the pull
\* secrets of the request become the image pull secrets.
ConfigureSecrets(request, statefulset, existing) ==
    LET names == requestedSecrets(request)
        generic == SelectSeq(Distinct(names),
                             LAMBDA n : existing[n].type # "kubernetes.io/dockercfg")
        existingVolumes == removeVolume(ProjectedSecrets, statefulset.volumes)
        existingMounts == removeVolumeMount(ProjectedSecrets, statefulset.mounts) IN
    IF \E i \in 1..Len(names) : names[i] \notin DOMAIN existing
      THEN [err |-> TRUE, statefulset |-> statefulset]
      ELSE [err |-> FALSE,
            statefulset |->
              [statefulset EXCEPT
                 !.imagePullSecrets =
                     SelectSeq(Distinct(names),
                               LAMBDA n : existing[n].type = "kubernetes.io/dockercfg"),
                 !.volumes =
                     IF names # <<>>
                       THEN Append(existingVolumes,
                                   [name |-> ProjectedSecrets, source |-> "projected",
                                    sources |-> [i \in 1..Len(generic) |->
                                        [name |-> generic[i],
                                         items |-> existing[generic[i]].keys]]])
                       ELSE existingVolumes,
                 !.mounts =
                     IF names # <<>>
                       THEN Append(existingMounts,
                                   [name |-> ProjectedSecrets,
                                    mountPath |-> secretsMountPath, readOnly |-> TRUE])
                       ELSE existingMounts]]

\* the names of the sources of the first volume named ProjectedSecrets
projectedNames(volumes) ==
    LET found == SelectSeq(volumes, LAMBDA v : v.name = ProjectedSecrets) IN
    IF found = <<>> THEN <<>>
    ELSE [i \in 1..Len(found[1].sources) |-> found[1].sources[i].name]

\* the secret names are returned in the order they are stored
ReadFunctionSecretsSpecUnsorted(statefulset) ==
    statefulset.imagePullSecrets \o projectedNames(statefulset.volumes)

\* ReadFunctionSecretsSpec(statefulset), called at secrets_factory_test.go:86.
\* Its body is not among the sources: it reads back the secret names of the
\* pod template, sorted.
ReadFunctionSecretsSpec(statefulset) ==
    SortStrings(statefulset.imagePullSecrets \o projectedNames(statefulset.volumes))

\* the requests' secret lists: nil, empty, resolvable pull and generic
\* names in several orders and with a repetition, and names that do not resolve
SecretRequests ==
    {Nil, Some(<<>>), Some(<<"pullsecret">>), Some(<<"testsecret">>),
     Some(<<"pullsecret", "testsecret">>), Some(<<"testsecret", "pullsecret">>),
     Some(<<"pullsecret", "apikey">>), Some(<<"testsecret", "testsecret">>),
     Some(<<"missing">>), Some(<<"testsecret", "missing">>)}

\* a volume and a mount the operations have no business with
DataVolume == [name |-> "data", source |-> "emptyDir", sources |-> <<>>]
DataMount == [name |-> "data", mountPath |-> "/data", readOnly |-> FALSE]

\* a volume and a mount named like the secrets volume, as a corrupted
\* earlier state left them (secrets_factory_test.go:129-146)
StaleSecretsVolume == [name |-> ProjectedSecrets, source |-> "none", sources |-> <<>>]
StaleSecretsMount == [name |-> ProjectedSecrets, mountPath |-> "", readOnly |-> FALSE]

\* the StatefulSets the operations start from: the ones of the tests
\* (securityContext_test.go:70-80, 117-144; secrets_factory_test.go:108-150),
\* the one newStatefulSet builds (statefulset.go:101-103), and one that runs
\* as root and holds the temp volume twice around a volume of its own
FactoryStatefulSets ==
    {[securityContext |-> Nil, volumes |-> <<>>, mounts |-> <<>>,
      imagePullSecrets |-> <<>>],
     [securityContext |-> Some([allowPrivilegeEscalation |-> Nil,
                                readOnlyRootFilesystem |-> Some(TRUE), runAsUser |-> Nil]),
      volumes |-> <<TempVolume>>, mounts |-> <<TempMount>>,
      imagePullSecrets |-> <<>>],
     [securityContext |-> Nil,
      volumes |-> <<StaleSecretsVolume, StaleSecretsVolume>>,
      mounts |-> <<StaleSecretsMount, StaleSecretsMount>>,
      imagePullSecrets |-> <<>>],
     [securityContext |-> Some([allowPrivilegeEscalation |-> Some(FALSE),
                                readOnlyRootFilesystem |-> Nil, runAsUser |-> Nil]),
      volumes |-> <<>>, mounts |-> <<>>, imagePullSecrets |-> <<>>],
     [securityContext |-> Some([allowPrivilegeEscalation |-> Some(TRUE),
                                readOnlyRootFilesystem |-> Some(FALSE), runAsUser |-> Some(0)]),
      volumes |-> <<TempVolume, DataVolume, TempVolume>>,
      mounts |-> <<TempMount, DataMount, TempMount>>,
      imagePullSecrets |-> <<>>]}

\* The variable factory holds the StatefulSet under the operations
\* (statefulset), the factory's configuration (config), and history: the
\* StatefulSet the calls started from (start), their number (n), the flags
\* passed to ConfigureReadOnlyRootFilesystem so far (flags), whether
\* ConfigureContainerUserID has been called (userID), the secret list of the
\* last ConfigureSecrets call that returned no error (secrets), and the call
\* just made (last).
\* history: the call just made; repeat says that the call before it was the
\* same operation with the same argument and returned no error, changed that
\* the call altered the StatefulSet
Called(op, arg, err, result, after) ==
    [op |-> op, arg |-> arg, err |-> err, result |-> result,
     repeat |-> factory.last.op = op /\ factory.last.arg = arg /\ ~factory.last.err,
     changed |-> after # factory.statefulset]

\* securityContext_test.go:87, update.go:117, statefulset.go:111
CallConfigureReadOnlyRootFilesystem ==
    /\ factory.pc = "run"
    /\ factory.n < MaxCalls
    /\ \E flag \in BOOLEAN :
        LET request == [service |-> Service, readOnlyRootFilesystem |-> flag]
            after == ConfigureReadOnlyRootFilesystem(request, factory.statefulset) IN
        factory' = [factory EXCEPT
                       !.statefulset = after,
                       !.n = @ + 1,
                       !.flags = Append(@, flag),
                       !.last = Called("ConfigureReadOnlyRootFilesystem", flag,
                                       FALSE, <<>>, after)]
    /\ UNCHANGED <<sysVars, synth, sig, hnd, pipe>>

\* update.go:118, statefulset.go:112
CallConfigureContainerUserID ==
    /\ factory.pc = "run"
    /\ factory.n < MaxCalls
    /\ LET after == ConfigureContainerUserID(factory.config, factory.statefulset) IN
        factory' = [factory EXCEPT
                       !.statefulset = after,
                       !.n = @ + 1,
                       !.userID = TRUE,
                       !.last = Called("ConfigureContainerUserID", <<>>,
                                       FALSE, <<>>, after)]
    /\ UNCHANGED <<sysVars, synth, sig, hnd, pipe>>

\* update.go:160, secrets_factory_test.go:81, 216
CallConfigureSecrets ==
    /\ factory.pc = "run"
    /\ factory.n < MaxCalls
    /\ \E secrets \in SecretRequests :
        LET request == [service |-> Service, secrets |-> secrets]
            ret == ConfigureSecrets(request, factory.statefulset, existingSecrets) IN
        factory' = [factory EXCEPT
                       !.statefulset = ret.statefulset,
                       !.n = @ + 1,
                       !.secrets = IF ret.err THEN @ ELSE Some(requestedSecrets(request)),
                       !.last = Called("ConfigureSecrets", secrets,
                                       ret.err, <<>>, ret.statefulset)]
    /\ UNCHANGED <<sysVars, synth, sig, hnd, pipe>>

\* secrets_factory_test.go:86
CallReadFunctionSecretsSpec ==
    /\ factory.pc = "run"
    /\ factory.n < MaxCalls
    /\ factory' = [factory EXCEPT
                      !.n = @ + 1,
                      !.last = Called("ReadFunctionSecretsSpec", <<>>, FALSE,
                                      ReadFunctionSecretsSpec(factory.statefulset),
                                      factory.statefulset)]
    /\ UNCHANGED <<sysVars, synth, sig, hnd, pipe>>

(***************************************************************************)
(* The spec signature: makeAnnotations (statefulset.go:223-246) and        *)
(* statefulsetNeedsUpdate (statefulset.go:159-184).                        *)
(* A string is modelled as the sequence of its tokens, the empty string as *)
(* the empty sequence; a JSON text has the tokens "{", "}", ":", ",",      *)
(* "null" and one token per string literal.                                *)
(***************************************************************************)
\* statefulset.go:19
annotationFunctionSpec == "com.openfaas.function.spec"

Punctuation == {"{", "}", ":", ",", "null"}

\* a token that is a string literal
IsLiteral(token) == token \notin Punctuation

\* a string of the model as a text
Text(string) == IF string = "" THEN <<>> ELSE <<string>>

\* the keys of the maps of the model in the order json.Marshal writes them
\* (sorted)
KeyOrder ==
    <<"com.openfaas.function.spec", "com.openfaas.health.http.initialDelay",
      "com.openfaas.profile", "prometheus.io.scrape", "topic">>

\* the zero value of FunctionSpec
zeroSpec == [image |-> "", annotations |-> Nil]

RECURSIVE marshalMap(_, _)
\* json.Marshal of a map[string]string: the members in the order of their keys
marshalMap(keys, map) ==
    IF keys = <<>> THEN <<>>
    ELSE IF Head(keys) \notin DOMAIN map THEN marshalMap(Tail(keys), map)
    ELSE LET rest == marshalMap(Tail(keys), map) IN
         <<Head(keys), ":", map[Head(keys)]>>
            \o (IF rest = <<>> THEN <<>> ELSE <<",">> \o rest)

\* json.Marshal(function.Spec), statefulset.go:238: the fields in the order
\* of their declaration, a nil annotations map left out
Marshal(spec) ==
    <<"{", "image", ":", spec.image>>
      \o (IF spec.annotations = Nil THEN <<>>
          ELSE <<",", "annotations", ":", "{">>
                 \o marshalMap(KeyOrder, spec.annotations[1]) \o <<"}">>)
      \o <<"}">>

ParseFail == [ok |-> FALSE]

RECURSIVE ParseValue(_), ParseMember(_, _)
\* the JSON value at the head of the tokens ts and the tokens after it
ParseValue(ts) ==
    IF ts = <<>> THEN ParseFail
    ELSE IF Head(ts) = "{"
      THEN IF Len(ts) >= 2 /\ ts[2] = "}"
             THEN [ok |-> TRUE, v |-> [kind |-> "object", members |-> <<>>],
                   rest |-> SubSeq(ts, 3, Len(ts))]
             ELSE ParseMember(Tail(ts), <<>>)
    ELSE IF Head(ts) = "null"
      THEN [ok |-> TRUE, v |-> [kind |-> "null"], rest |-> Tail(ts)]
    ELSE IF IsLiteral(Head(ts))
      THEN [ok |-> TRUE, v |-> [kind |-> "string", s |-> Head(ts)], rest |-> Tail(ts)]
    ELSE ParseFail

\* the members of an object from the next key on, acc being those read so far
ParseMember(ts, acc) ==
    IF Len(ts) < 3 \/ ~IsLiteral(ts[1]) \/ ts[2] # ":" THEN ParseFail
    ELSE LET val == ParseValue(SubSeq(ts, 3, Len(ts))) IN
         IF ~val.ok THEN ParseFail
         ELSE IF val.rest = <<>> THEN ParseFail
         ELSE LET members == Append(acc, [key |-> ts[1], value |-> val.v]) IN
              IF Head(val.rest) = "," THEN ParseMember(Tail(val.rest), members)
              ELSE IF Head(val.rest) = "}"
                THEN [ok |-> TRUE, v |-> [kind |-> "object", members |-> members],
                      rest |-> Tail(val.rest)]
              ELSE ParseFail

RECURSIVE decodeMap(_, _)
\* json.Unmarshal into a map[string]string: a later member replaces an earlier
\* one of the same key, null is the empty string, an object is an error
decodeMap(members, map) ==
    IF members = <<>> THEN [ok |-> TRUE, map |-> map]
    ELSE LET m == Head(members) IN
         IF m.value.kind = "object" THEN [ok |-> FALSE]
         ELSE decodeMap(Tail(members),
                        [k \in DOMAIN map \cup {m.key} |->
                            IF k = m.key
                              THEN (IF m.value.kind = "string" THEN m.value.s ELSE "")
                              ELSE map[k]])

RECURSIVE decodeSpec(_, _)
\* json.Unmarshal into a FunctionSpec: members of unknown keys are skipped,
\* a value of the wrong kind is an error
decodeSpec(members, spec) ==
    IF members = <<>> THEN [ok |-> TRUE, spec |-> spec]
    ELSE LET m == Head(members) IN
         IF m.key = "image"
           THEN IF m.value.kind = "string"
                  THEN decodeSpec(Tail(members), [spec EXCEPT !.image = m.value.s])
                ELSE IF m.value.kind = "null" THEN decodeSpec(Tail(members), spec)
                ELSE [ok |-> FALSE]
         ELSE IF m.key = "annotations"
           THEN IF m.value.kind = "object"
                  THEN LET r == decodeMap(m.value.members,
                                          IF spec.annotations = Nil THEN <<>>
                                          ELSE spec.annotations[1]) IN
                       IF r.ok
                         THEN decodeSpec(Tail(members),
                                         [spec EXCEPT !.annotations = Some(r.map)])
                         ELSE [ok |-> FALSE]
                ELSE IF m.value.kind = "null"
                  THEN decodeSpec(Tail(members), [spec EXCEPT !.annotations = Nil])
                ELSE [ok |-> FALSE]
         ELSE decodeSpec(Tail(members), spec)

\* json.Unmarshal([]byte(prevFnSpecJson), prevFnSpec), statefulset.go:166-167
Unmarshal(text) ==
    LET r == ParseValue(text) IN
    IF ~r.ok THEN [ok |-> FALSE]
    ELSE IF r.rest # <<>> THEN [ok |-> FALSE]
    ELSE IF r.v.kind = "object" THEN decodeSpec(r.v.members, zeroSpec)
    ELSE IF r.v.kind = "null" THEN [ok |-> TRUE, spec |-> zeroSpec]
    ELSE [ok |-> FALSE]

\* the annotations of the function are copied after the signature is set
makeAnnotationsUserLast(function) ==
    LET user == IF function.spec.annotations = Nil THEN <<>>
                ELSE function.spec.annotations[1] IN
    [k \in {"prometheus.io.scrape", annotationFunctionSpec} \cup DOMAIN user |->
        IF k \in DOMAIN user THEN Text(user[k])
        ELSE IF k = annotationFunctionSpec THEN Marshal(function.spec)
        ELSE <<"false">>]

\* statefulset.go:223-246
makeAnnotations(function) ==
    LET user == IF function.spec.annotations = Nil THEN <<>>
                ELSE function.spec.annotations[1] IN
    [k \in {"prometheus.io.scrape", annotationFunctionSpec} \cup DOMAIN user |->
        IF k = annotationFunctionSpec THEN Marshal(function.spec)
        ELSE IF k \in DOMAIN user THEN Text(user[k])
        ELSE <<"false">>]

\* buildAnnotations(request), called at update.go:61.  Its body is not among
\* the sources: per the design the annotations of an update carry the
\* scrape marker, the request's annotations and the spec signature, as those
\* of the synthesis do.
buildAnnotations(request) ==
    LET user == IF request.spec.annotations = Nil THEN <<>>
                ELSE request.spec.annotations[1] IN
    [k \in {"prometheus.io.scrape", annotationFunctionSpec} \cup DOMAIN user |->
        IF k = annotationFunctionSpec THEN Marshal(request.spec)
        ELSE IF k \in DOMAIN user THEN Text(user[k])
        ELSE <<"false">>]

\* the stored signature is compared with the incoming one as a string
statefulsetNeedsUpdateByString(function, statefulset) ==
    LET prevFnSpecJson ==
            IF annotationFunctionSpec \in DOMAIN statefulset.annotations
              THEN statefulset.annotations[annotationFunctionSpec] ELSE <<>> IN
    prevFnSpecJson # Marshal(function.spec)

\* statefulset.go:159-184
statefulsetNeedsUpdate(function, statefulset) ==
    LET prevFnSpecJson ==
            IF annotationFunctionSpec \in DOMAIN statefulset.annotations
              THEN statefulset.annotations[annotationFunctionSpec] ELSE <<>> IN
    IF prevFnSpecJson = <<>> THEN TRUE
    ELSE LET prevFnSpec == Unmarshal(prevFnSpecJson) IN
         IF ~prevFnSpec.ok THEN TRUE
         ELSE prevFnSpec.spec # function.spec

\* the annotation maps a function is declared with: none, an empty one, one
\* of another key and ones that use the key of the signature
UserAnnotations ==
    {Nil, Some(<<>>),
     Some([k \in {"topic"} |-> "orders"]),
     Some([k \in {annotationFunctionSpec} |-> "forged"]),
     Some([k \in {"topic", annotationFunctionSpec} |->
              IF k = "topic" THEN "orders" ELSE "forged"]),
     Some([k \in {"prometheus.io.scrape"} |-> "true"])}

Images == {"img:1", "img:2"}

\* the function specs of the model
FunctionSpecs == [image : Images, annotations : UserAnnotations]

\* another encoding of a spec: the fields in the other order, after a field
\* FunctionSpec does not have
MarshalReordered(spec) ==
    <<"{", "revision", ":", "7">>
      \o (IF spec.annotations = Nil THEN <<>>
          ELSE <<",", "annotations", ":", "{">>
                 \o marshalMap(KeyOrder, spec.annotations[1]) \o <<"}">>)
      \o <<",", "image", ":", spec.image, "}">>

\* a text cut before its last token
Truncated(text) == SubSeq(text, 1, Len(text) - 1)

\* the signatures a StatefulSet found in the cluster may carry, each with
\* what it is: none, the empty string, an encoding of a spec, or a text that
\* is not the encoding of a spec
StoredSignatures ==
    {[kind |-> "missing", of |-> zeroSpec, annotations |-> [k \in {"prometheus.io.scrape"} |-> <<"false">>]],
     [kind |-> "empty", of |-> zeroSpec, annotations |-> [k \in {annotationFunctionSpec} |-> <<>>]],
     [kind |-> "unparsable", of |-> zeroSpec, annotations |-> [k \in {annotationFunctionSpec} |-> <<"forged">>]],
     [kind |-> "unparsable", of |-> zeroSpec, annotations |-> [k \in {annotationFunctionSpec} |-> <<"{", "image", ":", "{", "}", "}">>]],
     [kind |-> "unparsable", of |-> zeroSpec, annotations |-> [k \in {annotationFunctionSpec} |-> <<"{", "image", ":", "img:1", ",", "}">>]]}
    \cup {[kind |-> "unparsable", of |-> zeroSpec,
           annotations |-> [k \in {annotationFunctionSpec} |-> Truncated(Marshal(s))]] :
             s \in FunctionSpecs}
    \cup {[kind |-> "encoded", of |-> s,
           annotations |-> [k \in {annotationFunctionSpec} |-> Marshal(s)]] :
             s \in FunctionSpecs}
    \cup {[kind |-> "encoded", of |-> s,
           annotations |-> [k \in {annotationFunctionSpec} |-> MarshalReordered(s)]] :
             s \in FunctionSpecs}

\* newStatefulSet builds the annotations of the StatefulSet of a function,
\* statefulset.go:47 and 54
SynthesizeAnnotations ==
    /\ sig.pc = "start"
    /\ sig' = [sig EXCEPT !.pc = "written", !.via = "synthesis",
                          !.statefulset = [annotations |->
                              makeAnnotations([spec |-> sig.function])]]
    /\ UNCHANGED <<sysVars, synth, factory, hnd, pipe>>

\* updateStatefulSetSpec replaces the annotations of the StatefulSet by those
\* of the request, update.go:61 and 142-145
UpdateAnnotations ==
    /\ sig.pc = "start"
    /\ sig' = [sig EXCEPT !.pc = "written", !.via = "update",
                          !.statefulset = [annotations |->
                              buildAnnotations([spec |-> sig.function])]]
    /\ UNCHANGED <<sysVars, synth, factory, hnd, pipe>>

\* statefulsetNeedsUpdate is asked of the StatefulSet and an incoming function
NeedsUpdate ==
    /\ sig.pc \in {"written", "found"}
    /\ \E incoming \in FunctionSpecs :
          sig' = [sig EXCEPT !.pc = "checked", !.incoming = incoming,
                             !.result = statefulsetNeedsUpdate([spec |-> incoming],
                                                               sig.statefulset)]
    /\ UNCHANGED <<sysVars, synth, factory, hnd, pipe>>

(***************************************************************************)
(* The collaborators of a reconcile: the resource and probe parsers and    *)
(* the profile resolver.  Their bodies are not among the sources; they are *)
(* modelled from the design and from what their callers do with what they  *)
(* return (statefulset.go:35-45, 122-147; update.go:147-192).              *)
(***************************************************************************)
\* k8s.ProfileAnnotationKey, read at statefulset.go:133
ProfileAnnotationKey == "com.openfaas.profile"

\* the annotation a function sets the initial delay of its probes with
ProbeInitialDelay == "com.openfaas.health.http.initialDelay"

\* the suffixes of a resource quantity
QuantitySuffixes == {"m", "Mi"}

\* a resource quantity: a numeral, or a numeral and a suffix.  Nil is the
\* parse error.
ParseQuantity(q) ==
    IF q = <<>> THEN Nil
    ELSE LET number == IF q[Len(q)] \in QuantitySuffixes
                         THEN SubSeq(q, 1, Len(q) - 1) ELSE q
             suffix == IF q[Len(q)] \in QuantitySuffixes THEN q[Len(q)] ELSE "" IN
         IF Atoi(number) = Nil THEN Nil
         ELSE Some([value |-> Atoi(number)[1], suffix |-> suffix])

\* corev1.ResourceRequirements with nothing set
NoResources == [limits |-> Nil]

\* createResources(request), called at update.go:147, and
\* makeResources(function), called at statefulset.go:41: the memory limit of
\* the request parsed into a quantity.  A malformed limit is an error, and
\* the requirements returned with it have nothing set.
createResources(request) ==
    IF request.limits = Nil THEN [err |-> FALSE, resources |-> NoResources]
    ELSE IF ParseQuantity(request.limits[1]) = Nil
      THEN [err |-> TRUE, resources |-> NoResources]
    ELSE [err |-> FALSE, resources |-> [limits |-> ParseQuantity(request.limits[1])]]

makeResources(function) == createResources(function)

\* the probes of a function that configures nothing: factory.Config
DefaultProbes == [liveness |-> [initialDelaySeconds |-> 2],
                  readiness |-> [initialDelaySeconds |-> 2]]

\* the annotations a function declares, as a map
declaredAnnotations(request) ==
    IF request.annotations = Nil THEN <<>> ELSE request.annotations[1]

\* factory.MakeProbes, called at update.go:166 and statefulset.go:35: the
\* probes of the configuration, with the initial delay the function's
\* annotation asks for.  A delay that is not a number is an error, and the
\* probes returned with it are those of the configuration.
MakeProbes(request) ==
    LET declared == declaredAnnotations(request) IN
    IF ProbeInitialDelay \notin DOMAIN declared
      THEN [err |-> FALSE, probes |-> DefaultProbes]
    ELSE IF Atoi(<<declared[ProbeInitialDelay]>>) = Nil
      THEN [err |-> TRUE, probes |-> DefaultProbes]
    ELSE [err |-> FALSE,
          probes |-> [liveness |-> [initialDelaySeconds |->
                                       Atoi(<<declared[ProbeInitialDelay]>>)[1]],
                      readiness |-> [initialDelaySeconds |->
                                       Atoi(<<declared[ProbeInitialDelay]>>)[1]]]]

\* the profiles of the profile store; any other name does not resolve
ProfileStore == {"p1", "p2"}

\* strings.Split(value, ",") on the values the profile annotation takes in
\* the model
SplitNames(value) ==
    IF value = "p1" THEN <<"p1">>
    ELSE IF value = "p2" THEN <<"p2">>
    ELSE IF value = "gone" THEN <<"gone">>
    ELSE IF value = "p1,p2" THEN <<"p1", "p2">>
    ELSE IF value = "p2,gone" THEN <<"p2", "gone">>
    ELSE <<value>>

\* the profile names an annotation map declares; a nil map declares none
profileNames(annotations) ==
    IF ProfileAnnotationKey \notin DOMAIN annotations THEN <<>>
    ELSE IF annotations[ProfileAnnotationKey] = <<>> THEN <<>>
    ELSE SplitNames(annotations[ProfileAnnotationKey][1])

\* the profile resolver: the profiles of the names, in their order.  A name
\* that is not in the store is an error, and so is a lookup under a context
\* that is cancelled; no profile is returned with an error.
resolveProfiles(ctx, names) ==
    IF names = <<>> THEN [err |-> FALSE, profileList |-> <<>>]
    ELSE IF ctx.cancelled THEN [err |-> TRUE, profileList |-> <<>>]
    ELSE IF \E i \in 1..Len(names) : names[i] \notin ProfileStore
      THEN [err |-> TRUE, profileList |-> <<>>]
    ELSE [err |-> FALSE, profileList |-> names]

\* factory.GetProfiles(ctx, profileNamespace, annotations), called at
\* update.go:186 and statefulset.go:137
GetProfiles(ctx, annotations) ==
    resolveProfiles(ctx, profileNames(annotations))

\* factory.GetProfilesToRemove(ctx, profileNamespace, annotations,
\* currentAnnotations), called at update.go:178 and statefulset.go:123: the
\* profiles currentAnnotations declares and annotations does not
GetProfilesToRemove(ctx, annotations, currentAnnotations) ==
    resolveProfiles(ctx,
        SelectSeq(profileNames(currentAnnotations),
                  LAMBDA name : \A i \in 1..Len(profileNames(annotations)) :
                                    profileNames(annotations)[i] # name))

\* factory.ApplyProfile(profile, statefulset), called at update.go:191 and
\* statefulset.go:146: the fragment of the profile is merged into the pod
\* spec, what is there already being kept
ApplyProfile(profile, statefulset) ==
    [statefulset EXCEPT !.fragments = @ \cup {profile}]

\* factory.RemoveProfile(profile, statefulset), called at update.go:183 and
\* statefulset.go:130: the fragment of the profile is taken out again
RemoveProfile(profile, statefulset) ==
    [statefulset EXCEPT !.fragments = @ \ {profile}]

RECURSIVE removeProfiles(_, _)
\* update.go:182-184, statefulset.go:129-131
removeProfiles(profileList, statefulset) ==
    IF profileList = <<>> THEN statefulset
    ELSE removeProfiles(Tail(profileList), RemoveProfile(Head(profileList), statefulset))

RECURSIVE applyProfiles(_, _)
\* update.go:190-192, statefulset.go:145-147
applyProfiles(profileList, statefulset) ==
    IF profileList = <<>> THEN statefulset
    ELSE applyProfiles(Tail(profileList), ApplyProfile(Head(profileList), statefulset))

\* the calls of RemoveProfile and ApplyProfile a reconcile makes, in order
profileCalls(toRemove, toApply) ==
    [i \in 1..Len(toRemove) |-> [op |-> "RemoveProfile", profile |-> toRemove[i]]]
      \o [i \in 1..Len(toApply) |-> [op |-> "ApplyProfile", profile |-> toApply[i]]]

(***************************************************************************)
(* The whole of a reconcile: newStatefulSet (statefulset.go:25-156) and    *)
(* the mutation of updateStatefulSetSpec (update.go:110-192).              *)
(***************************************************************************)
\* the part of a function the signature is taken of
specOf(function) == [image |-> function.image, annotations |-> function.annotations]

\* the labels a function declares: its own labels and, among them, the
\* minimum-replicas label, if any
declaredLabels(function) ==
    LET own == IF function.labels = Nil THEN <<>> ELSE function.labels[1]
        min == IF function.minLabel = Nil THEN {} ELSE {"com.openfaas.scale.min"} IN
    [k \in DOMAIN own \cup min |->
        IF k \in min THEN function.minLabel[1] ELSE own[k]]

\* the environment a function declares, as a map
declaredEnvironment(function) ==
    IF function.environment = Nil THEN <<>> ELSE function.environment[1]

\* the orders in which a range statement may visit the keys of a map: Go
\* leaves the order unspecified and varies it from one loop to the next
IterationOrders(map) ==
    {order \in [1..Cardinality(DOMAIN map) -> DOMAIN map] :
        \A i, j \in DOMAIN order : i # j => order[i] # order[j]}

\* statefulset.go:186-206: fprocess, then the environment of the function in
\* the order the range statement visits it (iteration)
makeEnvVars(function, iteration) ==
    LET env == declaredEnvironment(function) IN
    (IF function.handler # "" THEN <<[name |-> "fprocess", value |-> function.handler]>>
     ELSE <<>>)
      \o [i \in 1..Len(iteration) |-> [name |-> iteration[i], value |-> env[iteration[i]]]]

\* buildEnvVars(&request), called at update.go:115.  Its body is not among
\* the sources: fprocess, then the environment of the request in the order of
\* the names.
buildEnvVars(request) ==
    LET env == declaredEnvironment(request)
        sorted == CHOOSE order \in IterationOrders(env) :
                      \A i, j \in DOMAIN order : i < j => Rank(order[i]) < Rank(order[j]) IN
    (IF request.handler # "" THEN <<[name |-> "fprocess", value |-> request.handler]>>
     ELSE <<>>)
      \o [i \in 1..Len(sorted) |-> [name |-> sorted[i], value |-> env[sorted[i]]]]

\* statefulset.go:208-221
makeLabels(function) ==
    [k \in {"faas_function", "app", "controller"} \cup DOMAIN declaredLabels(function) |->
        IF k \in DOMAIN declaredLabels(function) THEN declaredLabels(function)[k]
        ELSE <<function.name>>]

\* UpdateSecrets(function, statefulsetSpec, existing), called at
\* statefulset.go:149: the secrets step of the factory on a Function
UpdateSecrets(function, statefulset, existing) ==
    ConfigureSecrets(function, statefulset, existing)

\* the warnings a synthesis logs, in order (statefulset.go:37, 43, 127, 141, 151)
warningsOf(probes, resources, toRemove, toApply, secrets) ==
    (IF probes.err THEN <<"probes">> ELSE <<>>)
      \o (IF resources.err THEN <<"resources">> ELSE <<>>)
      \o (IF toRemove.err THEN <<"profiles to remove">> ELSE <<>>)
      \o (IF toApply.err THEN <<"profiles">> ELSE <<>>)
      \o (IF secrets.err THEN <<"secrets">> ELSE <<>>)

\* a synthesis that returns no StatefulSet when the probes or the resources
\* do not parse
statefulsetSpecStrict(function, existingStatefulSet, existing, functionFactory, iteration) ==
    LET ctx == [cancelled |-> FALSE]
        probes == MakeProbes(function)
        resources == makeResources(function)
        annotations == makeAnnotations([spec |-> specOf(function)])
        built == [name |-> function.name,
                  annotations |-> annotations,
                  replicas |-> getReplicas(function, existingStatefulSet),
                  maxUnavailable |-> 0,
                  labels |-> makeLabels(function),
                  selector |-> [k \in {"app", "controller"} |-> <<function.name>>],
                  containers |-> 1,
                  image |-> function.image,
                  imagePullPolicy |-> "Always",
                  env |-> makeEnvVars(function, iteration),
                  resources |-> resources.resources,
                  probes |-> probes.probes,
                  securityContext |-> Some([allowPrivilegeEscalation |-> Some(FALSE),
                                            readOnlyRootFilesystem |-> Nil,
                                            runAsUser |-> Nil]),
                  volumes |-> <<>>, mounts |-> <<>>, imagePullSecrets |-> <<>>,
                  fragments |-> {}]
        readOnly == ConfigureReadOnlyRootFilesystem(function, built)
        userID == ConfigureContainerUserID(functionFactory.config, readOnly)
        currentAnnotations == IF existingStatefulSet = Nil THEN <<>>
                              ELSE existingStatefulSet[1].annotations
        toRemove == GetProfilesToRemove(ctx, annotations, currentAnnotations)
        removed == removeProfiles(toRemove.profileList, userID)
        toApply == GetProfiles(ctx, annotations)
        applied == applyProfiles(toApply.profileList, removed)
        secrets == UpdateSecrets(function, applied, existing)
    IN  [statefulset |-> IF probes.err \/ resources.err THEN Nil
                        ELSE Some(secrets.statefulset),
         warnings |-> warningsOf(probes, resources, toRemove, toApply, secrets),
         calls |-> profileCalls(toRemove.profileList, toApply.profileList),
         current |-> currentAnnotations]

\* statefulset.go:31-155: the StatefulSet newStatefulSet returns, with the
\* warnings it logs, the profile calls it makes and the annotations it takes
\* the profiles to remove against (current)
statefulsetSpec(function, existingStatefulSet, existing, functionFactory, iteration) ==
    LET ctx == [cancelled |-> FALSE]
        probes == MakeProbes(function)
        resources == makeResources(function)
        annotations == makeAnnotations([spec |-> specOf(function)])
        built == [name |-> function.name,
                  annotations |-> annotations,
                  replicas |-> getReplicas(function, existingStatefulSet),
                  maxUnavailable |-> 0,
                  labels |-> makeLabels(function),
                  selector |-> [k \in {"app", "controller"} |-> <<function.name>>],
                  containers |-> 1,
                  image |-> function.image,
                  imagePullPolicy |-> "Always",
                  env |-> makeEnvVars(function, iteration),
                  resources |-> resources.resources,
                  probes |-> probes.probes,
                  securityContext |-> Some([allowPrivilegeEscalation |-> Some(FALSE),
                                            readOnlyRootFilesystem |-> Nil,
                                            runAsUser |-> Nil]),
                  volumes |-> <<>>, mounts |-> <<>>, imagePullSecrets |-> <<>>,
                  fragments |-> {}]
        readOnly == ConfigureReadOnlyRootFilesystem(function, built)
        userID == ConfigureContainerUserID(functionFactory.config, readOnly)
        currentAnnotations == IF existingStatefulSet = Nil THEN <<>>
                              ELSE existingStatefulSet[1].annotations
        toRemove == GetProfilesToRemove(ctx, annotations, currentAnnotations)
        removed == removeProfiles(toRemove.profileList, userID)
        toApply == GetProfiles(ctx, annotations)
        applied == applyProfiles(toApply.profileList, removed)
        secrets == UpdateSecrets(function, applied, existing)
    IN  [statefulset |-> Some(secrets.statefulset),
         warnings |-> warningsOf(probes, resources, toRemove, toApply, secrets),
         calls |-> profileCalls(toRemove.profileList, toApply.profileList),
         current |-> currentAnnotations]

\* what updateStatefulSetSpec returns before its Update call
Returned(err, httpStatus, statefulset, profileOps, current) ==
    [err |-> err, httpStatus |-> httpStatus, statefulset |-> statefulset,
     calls |-> profileOps, current |-> current]

\* the profiles to remove are taken against the annotations already overwritten
updateStatefulSetSpecNoSnapshot(ctx, request, annotations, statefulset, existing, functionFactory, now) ==
    IF statefulset.containers = 0
      THEN Returned("none", 0, statefulset, <<>>, <<>>)
    ELSE
    LET image == [statefulset EXCEPT !.image = request.image,
                                     !.imagePullPolicy = "Always",
                                     !.env = buildEnvVars(request)]
        readOnly == ConfigureReadOnlyRootFilesystem(request, image)
        userID == ConfigureContainerUserID(functionFactory.config, readOnly)
        min == getMinReplicaCount(request.minLabel)
        labels == [k \in {"faas_function", "uid"} \cup DOMAIN declaredLabels(request) |->
                      IF k \in DOMAIN declaredLabels(request) THEN declaredLabels(request)[k]
                      ELSE IF k = "uid" THEN <<"uid", now>>
                      ELSE <<request.name>>]
        labelled == [userID EXCEPT !.replicas = IF min # Nil THEN min ELSE @,
                                   !.labels = labels]
        annotated == [labelled EXCEPT !.annotations = annotations]
        currentAnnotations == annotated.annotations
        resources == createResources(request)
        resourced == [annotated EXCEPT !.resources = resources.resources]
        secrets == ConfigureSecrets(request, resourced, existing)
        probes == MakeProbes(request)
        probed == [secrets.statefulset EXCEPT !.probes = probes.probes]
        toRemove == GetProfilesToRemove(ctx, annotations, currentAnnotations)
        removed == removeProfiles(toRemove.profileList, probed)
        toApply == GetProfiles(ctx, annotations)
        applied == applyProfiles(toApply.profileList, removed)
    IN  IF resources.err
          THEN Returned("resources", 400, statefulset, <<>>, currentAnnotations)
        ELSE IF secrets.err
          THEN Returned("secrets", 400, statefulset, <<>>, currentAnnotations)
        ELSE IF probes.err
          THEN Returned("probes", 400, statefulset, <<>>, currentAnnotations)
        ELSE IF toRemove.err
          THEN Returned("profiles", 400, statefulset, <<>>, currentAnnotations)
        ELSE IF toApply.err
          THEN Returned("profiles", 400, statefulset,
                        profileCalls(toRemove.profileList, <<>>), currentAnnotations)
        ELSE Returned("none", 0, applied,
                      profileCalls(toRemove.profileList, toApply.profileList),
                      currentAnnotations)

\* the mutation goes on after the resource limits failed to parse
updateStatefulSetSpecLenient(ctx, request, annotations, statefulset, existing, functionFactory, now) ==
    IF statefulset.containers = 0
      THEN Returned("none", 0, statefulset, <<>>, <<>>)
    ELSE
    LET image == [statefulset EXCEPT !.image = request.image,
                                     !.imagePullPolicy = "Always",
                                     !.env = buildEnvVars(request)]
        readOnly == ConfigureReadOnlyRootFilesystem(request, image)
        userID == ConfigureContainerUserID(functionFactory.config, readOnly)
        min == getMinReplicaCount(request.minLabel)
        labels == [k \in {"faas_function", "uid"} \cup DOMAIN declaredLabels(request) |->
                      IF k \in DOMAIN declaredLabels(request) THEN declaredLabels(request)[k]
                      ELSE IF k = "uid" THEN <<"uid", now>>
                      ELSE <<request.name>>]
        labelled == [userID EXCEPT !.replicas = IF min # Nil THEN min ELSE @,
                                   !.labels = labels]
        currentAnnotations == statefulset.annotations
        annotated == [labelled EXCEPT !.annotations = annotations]
        resources == createResources(request)
        resourced == [annotated EXCEPT !.resources = resources.resources]
        secrets == ConfigureSecrets(request, resourced, existing)
        probes == MakeProbes(request)
        probed == [secrets.statefulset EXCEPT !.probes = probes.probes]
        toRemove == GetProfilesToRemove(ctx, annotations, currentAnnotations)
        removed == removeProfiles(toRemove.profileList, probed)
        toApply == GetProfiles(ctx, annotations)
        applied == applyProfiles(toApply.profileList, removed)
    IN  IF secrets.err
          THEN Returned("secrets", 400, statefulset, <<>>, currentAnnotations)
        ELSE IF probes.err
          THEN Returned("probes", 400, statefulset, <<>>, currentAnnotations)
        ELSE IF toRemove.err
          THEN Returned("profiles", 400, statefulset, <<>>, currentAnnotations)
        ELSE IF toApply.err
          THEN Returned("profiles", 400, statefulset,
                        profileCalls(toRemove.profileList, <<>>), currentAnnotations)
        ELSE Returned("none", 0, applied,
                      profileCalls(toRemove.profileList, toApply.profileList),
                      currentAnnotations)

\* update.go:110-192: the mutation of the fetched StatefulSet and the steps
\* that can fail, up to the Update call.  err is "none" when the function
\* goes on to the Update call with statefulset; otherwise it returns err and
\* httpStatus.  calls are the profile calls made, current the annotations the
\* profiles to remove were taken against.
updateStatefulSetSpec(ctx, request, annotations, statefulset, existing, functionFactory, now) ==
    IF statefulset.containers = 0
      THEN Returned("none", 0, statefulset, <<>>, <<>>)
    ELSE
    LET image == [statefulset EXCEPT !.image = request.image,
                                     !.imagePullPolicy = "Always",
                                     !.env = buildEnvVars(request)]
        readOnly == ConfigureReadOnlyRootFilesystem(request, image)
        userID == ConfigureContainerUserID(functionFactory.config, readOnly)
        min == getMinReplicaCount(request.minLabel)
        labels == [k \in {"faas_function", "uid"} \cup DOMAIN declaredLabels(request) |->
                      IF k \in DOMAIN declaredLabels(request) THEN declaredLabels(request)[k]
                      ELSE IF k = "uid" THEN <<"uid", now>>
                      ELSE <<request.name>>]
        labelled == [userID EXCEPT !.replicas = IF min # Nil THEN min ELSE @,
                                   !.labels = labels]
        currentAnnotations == statefulset.annotations
        annotated == [labelled EXCEPT !.annotations = annotations]
        resources == createResources(request)
        resourced == [annotated EXCEPT !.resources = resources.resources]
        secrets == ConfigureSecrets(request, resourced, existing)
        probes == MakeProbes(request)
        probed == [secrets.statefulset EXCEPT !.probes = probes.probes]
        toRemove == GetProfilesToRemove(ctx, annotations, currentAnnotations)
        removed == removeProfiles(toRemove.profileList, probed)
        toApply == GetProfiles(ctx, annotations)
        applied == applyProfiles(toApply.profileList, removed)
    IN  IF resources.err
          THEN Returned("resources", 400, statefulset, <<>>, currentAnnotations)
        ELSE IF secrets.err
          THEN Returned("secrets", 400, statefulset, <<>>, currentAnnotations)
        ELSE IF probes.err
          THEN Returned("probes", 400, statefulset, <<>>, currentAnnotations)
        ELSE IF toRemove.err
          THEN Returned("profiles", 400, statefulset, <<>>, currentAnnotations)
        ELSE IF toApply.err
          THEN Returned("profiles", 400, statefulset,
                        profileCalls(toRemove.profileList, <<>>), currentAnnotations)
        ELSE Returned("none", 0, applied,
                      profileCalls(toRemove.profileList, toApply.profileList),
                      currentAnnotations)

\* the annotation maps the functions of a reconcile declare: none, profiles
\* that resolve and one that does not, and a probe delay that parses and one
\* that does not
DeclaredAnnotations ==
    {Nil,
     Some([k \in {ProfileAnnotationKey} |-> "p2"]),
     Some([k \in {ProfileAnnotationKey} |-> "p1,p2"]),
     Some([k \in {ProfileAnnotationKey} |-> "p2,gone"]),
     Some([k \in {ProbeInitialDelay} |-> "5"]),
     Some([k \in {ProbeInitialDelay} |-> "x"])}

\* the memory limits of the functions: none, two that parse, one that does not
DeclaredLimits == {Nil, Some(<<"5", "0", "Mi">>), Some(<<"x">>)}

\* the functions (and update requests) taken through a reconcile
Deployments ==
    [name : {Service}, image : {"img:2"}, handler : {"node index.js"},
     environment : {Nil, Some([k \in {"apikey", "testsecret"} |-> "on"])},
     annotations : DeclaredAnnotations,
     readOnlyRootFilesystem : BOOLEAN,
     secrets : {Nil, Some(<<"pullsecret", "testsecret">>), Some(<<"missing">>)},
     limits : DeclaredLimits, minLabel : {Nil, Some(<<"2">>)}, labels : {Nil}]

\* the function the StatefulSets found in the cluster were made for
PreviousDeployment ==
    [name |-> Service, image |-> "img:1", handler |-> "", environment |-> Nil,
     annotations |-> Nil,
     readOnlyRootFilesystem |-> TRUE, secrets |-> Some(<<"testsecret">>),
     limits |-> Nil, minLabel |-> Nil, labels |-> Nil]

\* the StatefulSet of PreviousDeployment as the store holds it, declaring the
\* profiles of value (and carrying their fragments), with the replica count
\* replicas
Stored(value, replicas, containers) ==
    LET made == statefulsetSpec(PreviousDeployment, Nil, existingSecrets,
                                [config |-> [SetNonRootUser |-> FALSE]], <<>>).statefulset[1] IN
    [made EXCEPT
        !.annotations = IF value = "" THEN @
                        ELSE [k \in DOMAIN @ \cup {ProfileAnnotationKey} |->
                                 IF k = ProfileAnnotationKey THEN <<value>> ELSE @[k]],
        !.fragments = IF value = "" THEN {}
                      ELSE {SplitNames(value)[i] : i \in 1..Len(SplitNames(value))},
        !.replicas = replicas,
        !.containers = containers]

\* the StatefulSets a reconcile finds: without profiles, with a profile of
\* the store, with a profile that has left the store since, scaled to 3 and
\* with no replica count
StoredStatefulSets ==
    {Stored("", Nil, 1), Stored("p1", Some(3), 1), Stored("gone", Some(1), 1),
     Stored("p1,p2", Some(1), 1)}

\* A function taken through newStatefulSet, or through the mutation of
\* updateStatefulSetSpec, run after run: each run starts from the StatefulSet
\* the run before it produced (fetch, mutate, write, fetch again).
\* pipe.runs is the history of the runs, pipe.existing the StatefulSet the
\* next run finds.
PipeSynthesize ==
    /\ pipe.pc = "run"
    /\ Len(pipe.runs) < MaxRuns
    /\ \E iteration \in IterationOrders(declaredEnvironment(pipe.function)) :
       LET made == statefulsetSpec(pipe.function, pipe.existing, existingSecrets,
                                   pipe.functionFactory, iteration) IN
       pipe' = [pipe EXCEPT
                   !.runs = Append(@, [via |-> "synthesis", found |-> pipe.existing,
                                       iteration |-> iteration,
                                       err |-> "none", statefulset |-> made.statefulset,
                                       warnings |-> made.warnings, calls |-> made.calls,
                                       current |-> made.current]),
                   !.existing = made.statefulset]
    /\ UNCHANGED <<sysVars, synth, factory, sig, hnd>>

PipeUpdate ==
    /\ pipe.pc = "run"
    /\ Len(pipe.runs) < MaxRuns
    /\ pipe.existing # Nil
    /\ LET made == updateStatefulSetSpec([cancelled |-> FALSE], pipe.function,
                                         buildAnnotations([spec |-> specOf(pipe.function)]),
                                         pipe.existing[1], existingSecrets,
                                         pipe.functionFactory, Len(pipe.runs) + 1) IN
       pipe' = [pipe EXCEPT
                   !.runs = Append(@, [via |-> "update", found |-> pipe.existing,
                                       iteration |-> <<>>,
                                       err |-> made.err,
                                       statefulset |-> IF made.err = "none"
                                                         THEN Some(made.statefulset) ELSE Nil,
                                       warnings |-> <<>>, calls |-> made.calls,
                                       current |-> made.current]),
                   !.existing = IF made.err = "none" THEN Some(made.statefulset) ELSE @]
    /\ UNCHANGED <<sysVars, synth, factory, sig, hnd>>

(***************************************************************************)
(* MakeUpdateHandler, update.go:23-91, with updateStatefulSetSpec          *)
(* (update.go:93-203) and updateService (update.go:205-231), step by step. *)
(* hnd.cluster is the store: the StatefulSet and the Service of the        *)
(* function with their resource versions.  hnd.calls is the history of the *)
(* store calls made, each with whether the caller's context was cancelled  *)
(* when it was issued and whether the store applied it.  hnd.response is   *)
(* the status written to the caller, 0 while nothing is written: a handler *)
(* that returns without writing leaves the server's 200.                   *)
(***************************************************************************)
\* the requests of the handler's model
HandlerRequests ==
    {request \in Deployments :
        /\ request.environment = Nil
        /\ ~request.readOnlyRootFilesystem
        /\ request.minLabel = Nil}

\* the Service of the function as the store holds it
StoredService == [annotations |-> [k \in {"prometheus.io.scrape"} |-> <<"false">>]]

\* a store call in the history
StoreCall(op, applied) == [op |-> op, cancelled |-> hnd.cancelled, applied |-> applied]

\* update.go:67-77, 79-87: what the handler writes for an error of
\* updateStatefulSetSpec, and what for one of updateService
statefulSetErrorResponse(notFound, status) == IF notFound THEN status ELSE 0

serviceErrorResponse(notFound, status) == status

\* update.go:61-65 and 100-108: the annotations of the request and the Get
ServeGetStatefulSet ==
    /\ hnd.pc = "start"
    /\ IF hnd.cluster.statefulset = Nil
         THEN hnd' = [hnd EXCEPT
                         !.pc = "done",
                         !.annotations = buildAnnotations([spec |-> specOf(hnd.request)]),
                         !.calls = Append(@, StoreCall("Get StatefulSet", FALSE)),
                         !.returned = [err |-> "notfound", httpStatus |-> 404],
                         !.response = statefulSetErrorResponse(TRUE, 404)]
         ELSE hnd' = [hnd EXCEPT
                         !.pc = "got",
                         !.annotations = buildAnnotations([spec |-> specOf(hnd.request)]),
                         !.calls = Append(@, StoreCall("Get StatefulSet", TRUE)),
                         !.fetched = hnd.cluster.statefulset,
                         !.fetchedVersion = hnd.cluster.version]
    /\ UNCHANGED <<sysVars, synth, factory, sig, pipe>>

\* a mutation after which the handler goes on to the Update call whatever
\* the probes step returned
ServeMutateIgnoringProbes ==
    /\ hnd.pc = "got"
    /\ LET made == updateStatefulSetSpec([cancelled |-> hnd.cancelled], hnd.request,
                                         hnd.annotations, hnd.fetched[1], existingSecrets,
                                         hnd.functionFactory, 1) IN
       IF made.err \notin {"none", "probes"}
         THEN hnd' = [hnd EXCEPT
                         !.pc = "done",
                         !.made = made,
                         !.returned = [err |-> made.err, httpStatus |-> made.httpStatus],
                         !.response = statefulSetErrorResponse(FALSE, made.httpStatus)]
         ELSE hnd' = [hnd EXCEPT !.pc = "mutated", !.made = made]
    /\ UNCHANGED <<sysVars, synth, factory, sig, pipe>>

\* update.go:110-192: the mutation and the steps that can fail; on an error
\* updateStatefulSetSpec returns and the handler (update.go:67-77) logs it
ServeMutate ==
    /\ hnd.pc = "got"
    /\ LET made == updateStatefulSetSpec([cancelled |-> hnd.cancelled], hnd.request,
                                         hnd.annotations, hnd.fetched[1], existingSecrets,
                                         hnd.functionFactory, 1) IN
       IF made.err # "none"
         THEN hnd' = [hnd EXCEPT
                         !.pc = "done",
                         !.made = made,
                         !.returned = [err |-> made.err, httpStatus |-> made.httpStatus],
                         !.response = statefulSetErrorResponse(FALSE, made.httpStatus)]
         ELSE hnd' = [hnd EXCEPT !.pc = "mutated", !.made = made]
    /\ UNCHANGED <<sysVars, synth, factory, sig, pipe>>

\* the Service is updated whatever the Update of the StatefulSet returned
ServeUpdateStatefulSetThenService ==
    /\ hnd.pc = "mutated"
    /\ \E fails \in BOOLEAN :
        LET rejected == fails \/ hnd.fetchedVersion # hnd.cluster.version IN
        hnd' = [hnd EXCEPT
                   !.pc = "service",
                   !.calls = Append(@, StoreCall("Update StatefulSet", ~rejected)),
                   !.cluster.statefulset = IF rejected THEN @ ELSE Some(hnd.made.statefulset),
                   !.cluster.version = IF rejected THEN @ ELSE @ + 1,
                   !.wrote = IF rejected THEN @ ELSE Some(hnd.made.statefulset)]
    /\ UNCHANGED <<sysVars, synth, factory, sig, pipe>>

\* update.go:195-203: the Update of the StatefulSet, rejected with a conflict
\* when the stored version is no longer the fetched one, or failing otherwise
ServeUpdateStatefulSet ==
    /\ hnd.pc = "mutated"
    /\ \E fails \in BOOLEAN :
        LET rejected == fails \/ hnd.fetchedVersion # hnd.cluster.version IN
        IF rejected
          THEN hnd' = [hnd EXCEPT
                          !.pc = "done",
                          !.calls = Append(@, StoreCall("Update StatefulSet", FALSE)),
                          !.returned = [err |-> "update", httpStatus |-> 500],
                          !.response = statefulSetErrorResponse(FALSE, 500)]
          ELSE hnd' = [hnd EXCEPT
                          !.pc = "service",
                          !.calls = Append(@, StoreCall("Update StatefulSet", TRUE)),
                          !.cluster.statefulset = Some(hnd.made.statefulset),
                          !.cluster.version = @ + 1,
                          !.wrote = Some(hnd.made.statefulset),
                          !.returned = [err |-> "none", httpStatus |-> 202]]
    /\ UNCHANGED <<sysVars, synth, factory, sig, pipe>>

\* update.go:211-219 and 79-87: the Get of the Service
ServeGetService ==
    /\ hnd.pc = "service"
    /\ IF hnd.cluster.service = Nil
         THEN hnd' = [hnd EXCEPT
                         !.pc = "done",
                         !.calls = Append(@, StoreCall("Get Service", FALSE)),
                         !.serviceErr = "notfound",
                         !.response = serviceErrorResponse(TRUE, 404)]
         ELSE hnd' = [hnd EXCEPT
                         !.pc = "gotService",
                         !.calls = Append(@, StoreCall("Get Service", TRUE)),
                         !.fetchedService = hnd.cluster.service]
    /\ UNCHANGED <<sysVars, synth, factory, sig, pipe>>

\* update.go:221-230 and 79-89: the Update of the Service
ServeUpdateService ==
    /\ hnd.pc = "gotService"
    /\ \E fails \in BOOLEAN :
        IF fails
          THEN hnd' = [hnd EXCEPT
                          !.pc = "done",
                          !.calls = Append(@, StoreCall("Update Service", FALSE)),
                          !.serviceErr = "update",
                          !.response = serviceErrorResponse(FALSE, 500)]
          ELSE hnd' = [hnd EXCEPT
                          !.pc = "done",
                          !.calls = Append(@, StoreCall("Update Service", TRUE)),
                          !.cluster.service =
                              Some([hnd.fetchedService[1] EXCEPT
                                       !.annotations = hnd.annotations]),
                          !.response = 202]
    /\ UNCHANGED <<sysVars, synth, factory, sig, pipe>>

\* the caller goes away: the context of its request (update.go:25) is cancelled
CancelRequest ==
    /\ hnd.pc \in {"start", "got", "mutated", "service", "gotService"}
    /\ ~hnd.cancelled
    /\ hnd' = [hnd EXCEPT !.cancelled = TRUE]
    /\ UNCHANGED <<sysVars, synth, factory, sig, pipe>>

\* another writer (the replica guard, an autoscaler) updates the StatefulSet
\* between the handler's Get and its Update
ConcurrentWrite ==
    /\ hnd.pc \in {"got", "mutated"}
    /\ ~hnd.raced
    /\ hnd' = [hnd EXCEPT
                  !.raced = TRUE,
                  !.cluster.statefulset = Some([@[1] EXCEPT !.replicas = Some(2)]),
                  !.cluster.version = @ + 1]
    /\ UNCHANGED <<sysVars, synth, factory, sig, pipe>>

(***************************************************************************)
(* The specification.                                                      *)
(***************************************************************************)
\* The initial state is the one right after informers.go:40: the handlers
\* are registered, the informer holds the StatefulSets of the namespace, the
\* List has returned them without an error, and no callback has run yet.
InitStatefulSets ==
    [name : Workloads, rv : {1}, replicas : OptReplicas, marker : BOOLEAN]

RECURSIVE InitialAdds(_)
\* the informer replays the objects it already holds as add notifications
\* to a listener registered on it
InitialAdds(order) ==
    IF order = <<>> THEN <<>>
    ELSE <<AddNotification(store[Head(order)])>> \o InitialAdds(Tail(order))

Init ==
    /\ store \in [Workloads -> InitStatefulSets]
    /\ \A n \in Workloads : store[n].name = n
    /\ writers = [n \in Workloads |-> <<"init">>]
    /\ queue = InitialAdds(WorkloadOrder)
    /\ delivered = Len(WorkloadOrder)
    /\ calls = [p \in Callers |-> 0]
    /\ inv = [p \in Callers |-> Idle]
    /\ last = [p \in Callers |-> NoCall]
    /\ sweep = [pc |-> "loop", list |-> List(store), i |-> 1,
               wrote |-> [n \in Workloads |-> <<>>]]
    /\ upd = [pc |-> "idle", n |-> 0]
    /\ extWrites = 0
    /\ synth = [pc |-> "idle"]
    /\ factory = [pc |-> "idle"]
    /\ sig = [pc |-> "idle"]
    /\ hnd = [pc |-> "idle"]
    /\ pipe = [pc |-> "idle"]

\* the replica guard and the other writers of the store
Next ==
    \/ AddFunc
    \/ UpdateFunc
    \/ HandlerUpdate
    \/ SweepCall
    \/ SweepUpdate
    \/ SweepReturn
    \/ ExternalWrite

Spec == Init /\ [][Next]_vars

\* The update path racing the guard, the update handler being the other
\* writer of the store; w2 starts as a bystander the guard does not act on
\* (no label, no replica count).
Bystander == [name |-> "w2", rv |-> 1, replicas |-> Nil, marker |-> FALSE]

InitUpdate ==
    /\ Init
    /\ store["w2"] = Bystander

NextUpdate ==
    \/ AddFunc
    \/ UpdateFunc
    \/ HandlerUpdate
    \/ SweepCall
    \/ SweepUpdate
    \/ SweepReturn
    \/ UpdateGet
    \/ UpdateWrite

SpecUpdate == InitUpdate /\ [][NextUpdate]_vars

\* The guard with its goroutines scheduled: the listener goroutine of the
\* informer keeps taking notifications (informers.go:19-38), the goroutine in
\* RegisterEventHandlers keeps walking its list (informers.go:46-50), and every
\* Update call returns.  w2 starts as the bystander.
FairGuard ==
    /\ WF_vars(AddFunc)
    /\ WF_vars(UpdateFunc)
    /\ WF_vars(HandlerUpdate)
    /\ WF_vars(SweepCall)
    /\ WF_vars(SweepUpdate)
    /\ WF_vars(SweepReturn)

SpecLive == InitUpdate /\ [][Next]_vars /\ FairGuard

\* Calls of newStatefulSet on every function and existing StatefulSet of the
\* model; the running system stands still.
InitSynthesis ==
    /\ store = [n \in Workloads |-> [Bystander EXCEPT !.name = n]]
    /\ writers = [n \in Workloads |-> <<"init">>]
    /\ queue = <<>>
    /\ delivered = 0
    /\ calls = [p \in Callers |-> 0]
    /\ inv = [p \in Callers |-> Idle]
    /\ last = [p \in Callers |-> NoCall]
    /\ sweep = [pc |-> "done", list |-> <<>>, i |-> 1,
               wrote |-> [n \in Workloads |-> <<>>]]
    /\ upd = [pc |-> "idle", n |-> MaxRequests]
    /\ extWrites = MaxExternalWrites
    /\ \E function \in Functions, existing \in ExistingStatefulSets :
        synth = [pc |-> "call", function |-> function, existing |-> existing,
                 deploy |-> [replicas |-> Nil]]
    /\ factory = [pc |-> "idle"]
    /\ sig = [pc |-> "idle"]
    /\ hnd = [pc |-> "idle"]
    /\ pipe = [pc |-> "idle"]

NextSynthesis == Synthesize

SpecSynthesis == InitSynthesis /\ [][NextSynthesis]_vars

\* the running system at rest: nothing queued, nothing left to do
SystemAtRest ==
    /\ store = [n \in Workloads |-> [Bystander EXCEPT !.name = n]]
    /\ writers = [n \in Workloads |-> <<"init">>]
    /\ queue = <<>>
    /\ delivered = 0
    /\ calls = [p \in Callers |-> 0]
    /\ inv = [p \in Callers |-> Idle]
    /\ last = [p \in Callers |-> NoCall]
    /\ sweep = [pc |-> "done", list |-> <<>>, i |-> 1,
               wrote |-> [n \in Workloads |-> <<>>]]
    /\ upd = [pc |-> "idle", n |-> MaxRequests]
    /\ extWrites = MaxExternalWrites

\* Calls of the FunctionFactory's operations, in any order, on the
\* StatefulSets of the model, with SetNonRootUser on and off.
InitFactory ==
    /\ SystemAtRest
    /\ synth = [pc |-> "idle"]
    /\ sig = [pc |-> "idle"]
    /\ hnd = [pc |-> "idle"]
    /\ pipe = [pc |-> "idle"]
    /\ \E statefulset \in FactoryStatefulSets, SetNonRootUser \in BOOLEAN :
        factory = [pc |-> "run", config |-> [SetNonRootUser |-> SetNonRootUser],
                   start |-> statefulset, statefulset |-> statefulset, n |-> 0,
                   flags |-> <<>>, userID |-> FALSE, secrets |-> Nil,
                   last |-> [op |-> "none", arg |-> <<>>, err |-> FALSE,
                             result |-> <<>>, repeat |-> FALSE, changed |-> FALSE]]

NextFactory ==
    \/ CallConfigureReadOnlyRootFilesystem
    \/ CallConfigureContainerUserID
    \/ CallConfigureSecrets
    \/ CallReadFunctionSecretsSpec

SpecFactory == InitFactory /\ [][NextFactory]_vars

\* The signature alone: a function about to be reconciled, or a StatefulSet
\* found in the cluster with the signature it carries.
InitSignature ==
    /\ SystemAtRest
    /\ synth = [pc |-> "idle"]
    /\ factory = [pc |-> "idle"]
    /\ hnd = [pc |-> "idle"]
    /\ pipe = [pc |-> "idle"]
    /\ \/ \E function \in FunctionSpecs :
             sig = [pc |-> "start", via |-> "none", function |-> function,
                    kind |-> "none", statefulset |-> [annotations |-> <<>>],
                    incoming |-> zeroSpec, result |-> FALSE]
       \/ \E stored \in StoredSignatures :
             sig = [pc |-> "found", via |-> "cluster", function |-> stored.of,
                    kind |-> stored.kind,
                    statefulset |-> [annotations |-> stored.annotations],
                    incoming |-> zeroSpec, result |-> FALSE]

NextSignature ==
    \/ SynthesizeAnnotations
    \/ UpdateAnnotations
    \/ NeedsUpdate

SpecSignature == InitSignature /\ [][NextSignature]_vars

\* Reconciles of one function, run after run, on its own.
InitPipeline ==
    /\ SystemAtRest
    /\ synth = [pc |-> "idle"]
    /\ factory = [pc |-> "idle"]
    /\ sig = [pc |-> "idle"]
    /\ hnd = [pc |-> "idle"]
    /\ \E function \in Deployments, SetNonRootUser \in BOOLEAN,
          existing \in {Nil} \cup {Some(s) : s \in StoredStatefulSets} :
        pipe = [pc |-> "run", function |-> function,
                functionFactory |-> [config |-> [SetNonRootUser |-> SetNonRootUser]],
                start |-> existing, existing |-> existing, runs |-> <<>>]

NextPipeline ==
    \/ PipeSynthesize
    \/ PipeUpdate

SpecPipeline == InitPipeline /\ [][NextPipeline]_vars

\* One update request served by MakeUpdateHandler, the caller free to go
\* away at any moment, another writer free to update the StatefulSet once.
InitHandler ==
    /\ SystemAtRest
    /\ synth = [pc |-> "idle"]
    /\ factory = [pc |-> "idle"]
    /\ sig = [pc |-> "idle"]
    /\ pipe = [pc |-> "idle"]
    /\ \E request \in HandlerRequests,
          statefulset \in {Nil} \cup {Some(s) : s \in StoredStatefulSets \cup {Stored("p1", Some(1), 0)}},
          service \in {Nil, Some(StoredService)} :
        hnd = [pc |-> "start", request |-> request,
               functionFactory |-> [config |-> [SetNonRootUser |-> TRUE]],
               cancelled |-> FALSE, raced |-> FALSE,
               start |-> statefulset,
               cluster |-> [statefulset |-> statefulset, version |-> 1, service |-> service],
               annotations |-> <<>>, fetched |-> Nil, fetchedVersion |-> 0,
               made |-> Returned("none", 0, <<>>, <<>>, <<>>),
               wrote |-> Nil, fetchedService |-> Nil,
               returned |-> [err |-> "none", httpStatus |-> 0],
               serviceErr |-> "none", calls |-> <<>>, response |-> 0]

NextHandler ==
    \/ ServeGetStatefulSet
    \/ ServeMutate
    \/ ServeUpdateStatefulSet
    \/ ServeGetService
    \/ ServeUpdateService
    \/ CancelRequest
    \/ ConcurrentWrite

SpecHandler == InitHandler /\ [][NextHandler]_vars

\* the label maps of the functions: none, and every map that sets some of
\* the labels of the synthesis (app, controller, faas_function) or a label
\* of its own to a value that is not the function's name
UserLabels ==
    {Nil} \cup {Some([k \in keys |-> <<"other">>]) :
                   keys \in SUBSET {"app", "controller", "faas_function", "team"} \ {{}}}

\* the functions with labels of their own
LabelledDeployments ==
    {[function EXCEPT !.labels = labels] :
        function \in {d \in Deployments : /\ d.environment = Nil
                                           /\ d.annotations = Nil
                                           /\ d.secrets = Nil
                                           /\ d.limits = Nil
                                           /\ ~d.readOnlyRootFilesystem},
        labels \in UserLabels}

\* A function with labels of its own taken through newStatefulSet and the
\* mutation of updateStatefulSetSpec.
InitLabels ==
    /\ SystemAtRest
    /\ synth = [pc |-> "idle"]
    /\ factory = [pc |-> "idle"]
    /\ sig = [pc |-> "idle"]
    /\ hnd = [pc |-> "idle"]
    /\ \E function \in LabelledDeployments, SetNonRootUser \in BOOLEAN,
          existing \in {Nil} \cup {Some(s) : s \in StoredStatefulSets} :
        pipe = [pc |-> "run", function |-> function,
                functionFactory |-> [config |-> [SetNonRootUser |-> SetNonRootUser]],
                start |-> existing, existing |-> existing, runs |-> <<>>]

SpecLabels == InitLabels /\ [][NextPipeline]_vars

\* The security policy of the factory: its operations called in any order on
\* the StatefulSets of the model, and the reconciles that call them.
InitPolicy == InitFactory \/ InitPipeline

NextPolicy ==
    \/ CallConfigureReadOnlyRootFilesystem
    \/ CallConfigureContainerUserID
    \/ CallConfigureSecrets
    \/ CallReadFunctionSecretsSpec
    \/ PipeSynthesize
    \/ PipeUpdate

SpecPolicy == InitPolicy /\ [][NextPolicy]_vars

\* The reconciles that produce a workload: the synthesis of newStatefulSet,
\* the update of updateStatefulSetSpec (racing the guard), and the factory's
\* steps that both of them call.
InitReconcile == InitUpdate \/ InitSynthesis \/ InitFactory

NextReconcile ==
    \/ AddFunc
    \/ UpdateFunc
    \/ HandlerUpdate
    \/ SweepCall
    \/ SweepUpdate
    \/ SweepReturn
    \/ UpdateGet
    \/ UpdateWrite
    \/ Synthesize
    \/ CallConfigureReadOnlyRootFilesystem
    \/ CallConfigureContainerUserID
    \/ CallConfigureSecrets
    \/ CallReadFunctionSecretsSpec

SpecReconcile == InitReconcile /\ [][NextReconcile]_vars

(***************************************************************************)
(* The replica guard: properties of applyValidation.                       *)
(***************************************************************************)
\* the object carries the faas_function label and a replica count
Guarded(obj) == obj.marker /\ obj.replicas # Nil

InBounds(obj) == Guarded(obj) /\ obj.replicas[1] \in 1..MaxReplicas

\* a completed invocation that made exactly one Update call, carrying r replicas
WroteOnce(call, r) ==
    /\ call.attempts = 1
    /\ call.sent # Nil
    /\ call.sent[1].name = call.obs.name
    /\ call.sent[1].replicas = Some(r)

\* C1: every observation (add, update, sweep) of a labelled StatefulSet with
\* exactly 0 replicas makes applyValidation issue exactly one Update, and
\* that Update carries 1 replica.
C1_ZeroCorrection ==
    \A p \in Callers :
        /\ (inv[p].pc = "update" /\ inv[p].obs.replicas = Some(0))
              => inv[p].clone.replicas = Some(1)
        /\ (last[p].valid /\ Guarded(last[p].obs) /\ last[p].obs.replicas = Some(0))
              => WroteOnce(last[p], 1)

\* a zero observation corrected on an update notification and one corrected
\* by the sweep
C1_Witness ==
    /\ last["handler"].valid /\ last["handler"].via = "update"
    /\ Guarded(last["handler"].obs) /\ last["handler"].obs.replicas = Some(0)
    /\ last["handler"].attempts = 1
    /\ last["sweep"].valid
    /\ Guarded(last["sweep"].obs) /\ last["sweep"].obs.replicas = Some(0)
    /\ last["sweep"].attempts = 1

\* C2: every observation of a labelled StatefulSet with more than
\* MaxReplicas replicas makes applyValidation issue exactly one Update, and
\* that Update carries MaxReplicas replicas.
C2_CeilingClamp ==
    \A p \in Callers :
        /\ (inv[p].pc = "update" /\ inv[p].obs.replicas[1] > MaxReplicas)
              => inv[p].clone.replicas = Some(MaxReplicas)
        /\ (last[p].valid /\ Guarded(last[p].obs) /\ last[p].obs.replicas[1] > MaxReplicas)
              => WroteOnce(last[p], MaxReplicas)

C2_Witness ==
    \E p \in Callers :
        /\ last[p].valid /\ Guarded(last[p].obs)
        /\ last[p].obs.replicas[1] > MaxReplicas
        /\ last[p].attempts = 1
        /\ last[p].updateErr = "none"
        /\ store[last[p].obs.name].replicas = Some(MaxReplicas)

\* the object a caller hands to applyValidation in the step it enters it
Entering(p) ==
    IF p = "handler" THEN Head(queue).newObj ELSE sweep.list[sweep.i]

\* C3: an observation of a labelled StatefulSet whose replica count lies in
\* 1..MaxReplicas makes applyValidation return without an Update call, and
\* the store is left as it was.
C3_InBoundsNoop ==
    [][\A p \in Callers :
          (calls'[p] # calls[p] /\ InBounds(Entering(p)))
            => /\ store' = store
               /\ inv'[p].pc = "idle"
               /\ last'[p].valid /\ last'[p].obs = Entering(p)
               /\ last'[p].attempts = 0 /\ last'[p].sent = Nil]_vars

\* an observation at the ceiling itself went through without a write
C3_Witness ==
    \E p \in Callers :
        /\ last[p].valid /\ InBounds(last[p].obs)
        /\ last[p].obs.replicas = Some(MaxReplicas)
        /\ last[p].attempts = 0

\* C4: applyValidation never issues an Update for a StatefulSet without the
\* faas_function label or with a nil replica count, whatever its replica
\* value, on add notifications, update notifications and the sweep alike.
C4_Scope ==
    \A p \in Callers :
        /\ inv[p].pc = "update" => Guarded(inv[p].obs)
        /\ (last[p].valid /\ ~Guarded(last[p].obs))
              => (last[p].attempts = 0 /\ last[p].sent = Nil)
        /\ \A n \in Workloads : \A v \in 2..Len(writers[n]) :
              writers[n][v] = p => store[n].marker

\* two workloads with 0 replicas, w1 labelled and w2 not: the sweep has
\* corrected w1 to 1 and passed over w2
C4_Witness ==
    /\ sweep.pc = "done" /\ Len(sweep.list) = 2
    /\ sweep.list[1].replicas = Some(0) /\ sweep.list[1].marker
    /\ sweep.list[2].replicas = Some(0) /\ ~sweep.list[2].marker
    /\ writers["w1"] = <<"init", "sweep">> /\ store["w1"].replicas = Some(1)
    /\ last["sweep"].obs.name = "w2" /\ last["sweep"].attempts = 0
    /\ last["handler"].valid /\ last["handler"].obs = sweep.list[2]
    /\ store["w2"] = sweep.list[2]

\* C5: when the store rejects the corrective Update with a conflict,
\* applyValidation returns nil and has made that one Update call only; any
\* other failure of the Update is returned as an error.
C5_ConflictHandling ==
    \A p \in Callers :
        last[p].valid =>
            /\ last[p].attempts <= 1
            /\ last[p].updateErr = "conflict" => (last[p].ret = "nil" /\ last[p].attempts = 1)
            /\ last[p].updateErr = "error" => last[p].ret = "error"
            /\ last[p].updateErr = "none" => last[p].ret = "nil"

\* a conflict swallowed by one caller and another failure reported by the other
C5_Witness ==
    /\ last["handler"].valid /\ last["handler"].updateErr = "conflict"
    /\ last["sweep"].valid /\ last["sweep"].updateErr = "error"

(***************************************************************************)
(* The guard and the update path on one workload.                          *)
(***************************************************************************)
\* caller p of applyValidation and updateStatefulSetSpec both read revision
\* v of workload n, both made their Update call, and the store answered both
Raced(p, n, v) ==
    /\ last[p].valid /\ last[p].attempts = 1
    /\ last[p].obs.name = n /\ last[p].obs.rv = v
    /\ last[p].updateErr \in {"none", "conflict"}
    /\ upd.pc = "done" /\ upd.wrote
    /\ upd.sent.name = n /\ upd.fetched = v
    /\ upd.err \in {"none", "conflict"}

Entered(p) == IF inv[p].pc = "update" THEN inv[p].obs ELSE last[p].obs

\* C7 as stated: no two applyValidation invocations for the same workload
\* are ever in flight together, the sweep's included.
C7_NoOverlap ==
    ~ /\ inv["handler"].pc = "update"
      /\ inv["sweep"].pc = "update"
      /\ inv["handler"].obs.name = inv["sweep"].obs.name

\* C7 (amended): the callbacks make one applyValidation call per
\* notification, on the notification's object, in delivery order and one at
\* a time; the sweep makes one call per listed object, in list order and one
\* at a time.
C7_SerialPerCaller ==
    /\ [](calls["handler"] = delivered - Len(queue))
    /\ [](calls["sweep"] = sweep.i - 1)
    /\ [][calls'["handler"] # calls["handler"]
            => /\ inv["handler"].pc = "idle"
               /\ calls'["handler"] = calls["handler"] + 1
               /\ queue # <<>> /\ queue' = Tail(queue)
               /\ Entered("handler")' = Head(queue).newObj]_vars
    /\ [][calls'["sweep"] # calls["sweep"]
            => /\ inv["sweep"].pc = "idle"
               /\ calls'["sweep"] = calls["sweep"] + 1
               /\ Entered("sweep")' = sweep.list[sweep.i]]_vars

\* the callback and the sweep are both inside applyValidation for w1, and
\* the callback's call was made for an update notification
C7_Witness ==
    /\ inv["handler"].pc = "update" /\ inv["handler"].via = "update"
    /\ inv["sweep"].pc = "update"
    /\ inv["handler"].obs.name = inv["sweep"].obs.name

\* the replica count applyValidation sends for an out-of-bounds object
Target(obj) == IF obj.replicas[1] = 0 THEN 1 ELSE MaxReplicas

\* C8: RegisterEventHandlers makes one pass over the list of the configured
\* namespace: when it returns, applyValidation has been called once for
\* every StatefulSet of that namespace, and for every listed one that is
\* labelled and out of bounds (0, or above MaxReplicas) one corrective Update
\* has been issued, and none for the others.
C8_StartupSweep ==
    sweep.pc = "done" =>
        /\ calls["sweep"] = Len(sweep.list)
        /\ \A n \in Workloads :
              Cardinality({i \in 1..Len(sweep.list) : sweep.list[i].name = n}) = 1
        /\ \A i \in 1..Len(sweep.list) :
              IF Guarded(sweep.list[i]) /\ ~InBounds(sweep.list[i])
                THEN sweep.wrote[sweep.list[i].name] = <<Some(Target(sweep.list[i]))>>
                ELSE sweep.wrote[sweep.list[i].name] = <<>>

\* the sweep has corrected both workloads before any notification was handled
C8_Witness ==
    /\ sweep.pc = "done"
    /\ calls["handler"] = 0
    /\ sweep.wrote = [n \in Workloads |-> <<Some(IF n = "w1" THEN 1 ELSE MaxReplicas)>>]
    /\ writers["w1"] = <<"init", "sweep">>
    /\ writers["w2"] = <<"init", "sweep">>
    /\ store["w1"].replicas = Some(1)
    /\ store["w2"].replicas = Some(MaxReplicas)

(***************************************************************************)
(* The replica count newStatefulSet persists.                              *)
(***************************************************************************)
\* the existing replica count handed to newStatefulSet, if any
existingReplicas ==
    IF synth.existing = Nil THEN Nil ELSE synth.existing[1].replicas

Max(a, b) == IF a >= b THEN a ELSE b

\* the replica policy of the design: the larger of the two when both are
\* present, the one that is present otherwise, unset when neither is
Resolve(min, existing) ==
    IF min # Nil /\ existing # Nil THEN Some(Max(min[1], existing[1]))
    ELSE IF min # Nil THEN min
    ELSE existing

\* C9 as stated: the replica count newStatefulSet persists is max(min,
\* existing) when both are present, min when only min is present, existing
\* when only existing is present, and unset when neither is.
C9_ReplicaPolicyLaw ==
    synth.pc = "done"
        => synth.deploy.replicas = Resolve(declaredMin(synth.function), existingReplicas)

\* C9 (amended): as stated, except that an existing replica count of 0 is
\* persisted as 0 whatever minimum is declared.
C9_ReplicaPolicyLawKeepingZero ==
    synth.pc = "done"
        => synth.deploy.replicas =
             IF existingReplicas = Some(0) THEN Some(0)
             ELSE Resolve(declaredMin(synth.function), existingReplicas)

\* a declared minimum of 3 raised an existing count of 1
C9_Witness ==
    /\ synth.pc = "done"
    /\ declaredMin(synth.function) = Some(3)
    /\ existingReplicas = Some(1)
    /\ synth.deploy.replicas = Some(3)

\* C10: when the existing StatefulSet has exactly 0 replicas, newStatefulSet
\* returns 0 replicas even if the function declares a positive minimum.
C10_ScaleToZeroKept ==
    (synth.pc = "done" /\ existingReplicas = Some(0))
        => synth.deploy.replicas = Some(0)

\* minimum 2, existing 0, result 0
C10_Witness ==
    /\ synth.pc = "done"
    /\ synth.function.minLabel = Some(<<"2">>)
    /\ declaredMin(synth.function) = Some(2)
    /\ existingReplicas = Some(0)
    /\ synth.deploy.replicas = Some(0)

(***************************************************************************)
(* The security context and the temp volume.                               *)
(***************************************************************************)
Named(name, items) == SelectSeq(items, LAMBDA x : x.name = name)

\* the flag of the last ConfigureReadOnlyRootFilesystem call
lastFlag == factory.flags[Len(factory.flags)]

\* C13: once ConfigureReadOnlyRootFilesystem has been called, whatever the
\* StatefulSet was before and whatever calls were made, the StatefulSet has
\* exactly one EmptyDir volume named temp and exactly one mount named temp,
\* at /tmp and writable, if the flag of the last call was true, and no volume
\* and no mount named temp if it was false.
C13_TempVolumeToggle ==
    (factory.pc = "run" /\ factory.flags # <<>>) =>
        IF lastFlag
          THEN /\ Named("temp", factory.statefulset.volumes) = <<TempVolume>>
               /\ Named("temp", factory.statefulset.mounts) = <<TempMount>>
          ELSE /\ Named("temp", factory.statefulset.volumes) = <<>>
               /\ Named("temp", factory.statefulset.mounts) = <<>>

\* true, false, true on a StatefulSet that held the temp volume twice: one
\* temp volume, behind the volume the operation has no business with
C13_Witness ==
    /\ factory.pc = "run"
    /\ factory.flags = <<TRUE, FALSE, TRUE>>
    /\ Len(Named("temp", factory.start.volumes)) = 2
    /\ factory.statefulset.volumes = <<DataVolume, TempVolume>>
    /\ factory.statefulset.mounts = <<DataMount, TempMount>>

\* C14: after ConfigureReadOnlyRootFilesystem the container has a security
\* context whose ReadOnlyRootFilesystem is the flag of the request, whether
\* or not it had a security context before; a second call with the same
\* request right after leaves the StatefulSet as it is.
C14_ReadOnlyFlag ==
    (factory.pc = "run" /\ factory.flags # <<>>) =>
        /\ factory.statefulset.securityContext # Nil
        /\ factory.statefulset.securityContext[1].readOnlyRootFilesystem = Some(lastFlag)
        /\ (factory.last.op = "ConfigureReadOnlyRootFilesystem" /\ factory.last.repeat)
              => ~factory.last.changed

\* a container without a security context got one with the flag set, and
\* the same call was then made again
C14_Witness ==
    /\ factory.pc = "run"
    /\ factory.start.securityContext = Nil
    /\ factory.flags = <<TRUE, TRUE>>
    /\ factory.last.op = "ConfigureReadOnlyRootFilesystem" /\ factory.last.repeat
    /\ factory.statefulset.securityContext[1].readOnlyRootFilesystem = Some(TRUE)

\* C15: once ConfigureContainerUserID has been called the container has a
\* security context, and its RunAsUser is 12000 if SetNonRootUser is set and
\* nil otherwise, whatever RunAsUser was before.
C15_NonRootUser ==
    (factory.pc = "run" /\ factory.userID) =>
        /\ factory.statefulset.securityContext # Nil
        /\ factory.statefulset.securityContext[1].runAsUser =
              IF factory.config.SetNonRootUser THEN Some(SecurityContextUserID) ELSE Nil

\* a container running as user 0 had the user id cleared
C15_Witness ==
    /\ factory.pc = "run"
    /\ factory.userID /\ ~factory.config.SetNonRootUser
    /\ factory.last.op = "ConfigureContainerUserID"
    /\ factory.start.securityContext # Nil
    /\ factory.start.securityContext[1].runAsUser = Some(0)
    /\ factory.statefulset.securityContext[1].runAsUser = Nil

(***************************************************************************)
(* The secrets step.                                                       *)
(***************************************************************************)
\* C16: once ConfigureSecrets (UpdateSecrets) has returned without an error,
\* whatever the StatefulSet was before (several volumes and mounts named
\* <service>-projected-secrets included) and whatever calls were made, the
\* StatefulSet has exactly one projected volume and exactly one mount of that
\* name, the mount at the secrets mount path, if the secret list of the last
\* such call was non-empty, and none if it was empty or nil.
C16_SecretProjection ==
    (factory.pc = "run" /\ factory.secrets # Nil) =>
        IF factory.secrets[1] # <<>>
          THEN /\ Len(Named(ProjectedSecrets, factory.statefulset.volumes)) = 1
               /\ Named(ProjectedSecrets, factory.statefulset.volumes)[1].source = "projected"
               /\ Len(Named(ProjectedSecrets, factory.statefulset.mounts)) = 1
               /\ Named(ProjectedSecrets, factory.statefulset.mounts)[1].mountPath
                     = secretsMountPath
          ELSE /\ Named(ProjectedSecrets, factory.statefulset.volumes) = <<>>
               /\ Named(ProjectedSecrets, factory.statefulset.mounts) = <<>>

\* the same two secrets projected twice in a row onto a StatefulSet that
\* held two stale volumes and mounts of the name
C16_Witness ==
    /\ factory.pc = "run"
    /\ Len(Named(ProjectedSecrets, factory.start.volumes)) = 2
    /\ factory.last.op = "ConfigureSecrets" /\ factory.last.repeat
    /\ factory.secrets = Some(<<"pullsecret", "testsecret">>)
    /\ Len(factory.statefulset.volumes) = 1
    /\ Len(factory.statefulset.mounts) = 1
    /\ factory.statefulset.volumes[1].sources
          = <<[name |-> "testsecret", items |-> {"filename"}]>>

\* the secret list of a ConfigureSecrets call names a secret that does not resolve
Unresolvable(secrets) ==
    secrets # Nil /\ \E i \in 1..Len(secrets[1]) : secrets[1][i] \notin DOMAIN existingSecrets

\* C17: a ConfigureSecrets call with a secret name that does not resolve
\* returns an error and leaves the StatefulSet as it was; when the secrets
\* step fails in updateStatefulSetSpec, it returns the error (400) and has
\* made no Update call, so the store holds no write of it.
C17_SecretMissAtomic ==
    /\ (factory.pc = "run" /\ factory.last.op = "ConfigureSecrets")
          => /\ factory.last.err <=> Unresolvable(factory.last.arg)
             /\ factory.last.err => ~factory.last.changed
    /\ (upd.pc = "done" /\ upd.err = "secrets")
          => /\ ~upd.wrote
             /\ upd.status = 400
             /\ upd.n = 1 => \A n \in Workloads : \A v \in 1..Len(writers[n]) :
                                writers[n][v] # "update"

\* a resolvable secret followed by one that is not, on a StatefulSet that
\* already carries a projected volume
C17_Witness ==
    /\ factory.pc = "run"
    /\ factory.last.op = "ConfigureSecrets" /\ factory.last.err
    /\ factory.last.arg = Some(<<"testsecret", "missing">>)
    /\ factory.secrets = Some(<<"pullsecret", "apikey">>)
    /\ Len(Named(ProjectedSecrets, factory.statefulset.volumes)) = 1

\* the names of secrets, each once, in sorted order
SortedDedup(secrets) ==
    SelectSeq(NameOrder, LAMBDA name : \E i \in 1..Len(secrets) : secrets[i] = name)

\* C18: ReadFunctionSecretsSpec on a StatefulSet that ConfigureSecrets
\* configured for the resolvable secret list S returns sorted(dedup(S)), the
\* empty list for an empty S.
C18_SecretRoundTrip ==
    (factory.pc = "run" /\ factory.last.op = "ReadFunctionSecretsSpec"
                        /\ factory.secrets # Nil)
        => factory.last.result = SortedDedup(factory.secrets[1])

\* a pull secret and a generic secret that sorts before it
C18_Witness ==
    /\ factory.pc = "run"
    /\ factory.last.op = "ReadFunctionSecretsSpec"
    /\ factory.secrets = Some(<<"pullsecret", "apikey">>)
    /\ factory.last.result = <<"apikey", "pullsecret">>

(***************************************************************************)
(* The replica count after a reconcile.                                    *)
(***************************************************************************)
\* the update request in hand declares this minimum
requestMin == getMinReplicaCount(upd.request.minLabel)

\* updateStatefulSetSpec has returned 202: its Update was applied
Updated == upd.pc = "done" /\ upd.wrote /\ upd.err = "none"

AtLeast(replicas, min) == replicas # Nil /\ replicas[1] >= min[1]

\* C11 as stated: after a successful synthesis or update for a function that
\* declares a minimum, the workload's replica count is not below it; with no
\* minimum and no prior replica count the replica count is unset.
C11_MinimumReplicas ==
    /\ synth.pc = "done" =>
          /\ declaredMin(synth.function) # Nil
                => AtLeast(synth.deploy.replicas, declaredMin(synth.function))
          /\ (declaredMin(synth.function) = Nil /\ existingReplicas = Nil)
                => synth.deploy.replicas = Nil
    /\ Updated =>
          /\ requestMin # Nil => AtLeast(upd.sent.replicas, requestMin)
          /\ (requestMin = Nil /\ upd.existing = Nil) => upd.sent.replicas = Nil

\* C11 (amended): as stated, except that newStatefulSet keeps an existing
\* replica count of exactly 0 at 0, below a declared positive minimum.
C11_MinimumReplicasUnlessZero ==
    /\ synth.pc = "done" =>
          /\ (declaredMin(synth.function) # Nil /\ existingReplicas # Some(0))
                => AtLeast(synth.deploy.replicas, declaredMin(synth.function))
          /\ existingReplicas = Some(0) => synth.deploy.replicas = Some(0)
          /\ (declaredMin(synth.function) = Nil /\ existingReplicas = Nil)
                => synth.deploy.replicas = Nil
    /\ Updated =>
          /\ requestMin # Nil => AtLeast(upd.sent.replicas, requestMin)
          /\ (requestMin = Nil /\ upd.existing = Nil) => upd.sent.replicas = Nil

\* an update declaring a minimum of 3 was applied to a workload that had 1
C11_Witness ==
    /\ Updated
    /\ requestMin = Some(3)
    /\ upd.existing = Some(1)
    /\ store[upd.request.service].replicas = Some(3)

\* C12: the replica count updateStatefulSetSpec writes is max(min, fetched)
\* when a minimum is declared and a count was fetched, and the fetched value
\* when no minimum is declared; it never lowers a count above the minimum.
C12_UpdateReplicaPolicy ==
    (upd.pc = "done" /\ upd.wrote) =>
        /\ upd.sent.replicas = Resolve(requestMin, upd.existing)
        /\ (requestMin # Nil /\ upd.existing # Nil /\ upd.existing[1] > requestMin[1])
              => upd.sent.replicas = upd.existing

\* the signature a StatefulSet carries, the empty string when it has none
signatureOf(statefulset) ==
    IF annotationFunctionSpec \in DOMAIN statefulset.annotations
      THEN statefulset.annotations[annotationFunctionSpec] ELSE <<>>

\* the value the function's own annotations give to the key of the signature
forgedBy(spec) ==
    IF spec.annotations = Nil THEN Nil
    ELSE IF annotationFunctionSpec \in DOMAIN spec.annotations[1]
      THEN Some(Text(spec.annotations[1][annotationFunctionSpec]))
    ELSE Nil

\* C19: after a synthesis by newStatefulSet and after an update by
\* updateStatefulSetSpec the annotations of the StatefulSet hold
\* com.openfaas.function.spec, its value decodes to the FunctionSpec that
\* produced the StatefulSet, so that statefulsetNeedsUpdate asked with that
\* same spec answers false; an annotation of the same key declared by the
\* function never takes the place of the signature.
C19_SignatureInvariant ==
    (sig.pc \in {"written", "checked"} /\ sig.via \in {"synthesis", "update"}) =>
        /\ annotationFunctionSpec \in DOMAIN sig.statefulset.annotations
        /\ Unmarshal(signatureOf(sig.statefulset)) = [ok |-> TRUE, spec |-> sig.function]
        /\ ~statefulsetNeedsUpdate([spec |-> sig.function], sig.statefulset)
        /\ (sig.pc = "checked" /\ sig.incoming = sig.function => ~sig.result)
        /\ (forgedBy(sig.function) # Nil =>
               signatureOf(sig.statefulset) # forgedBy(sig.function)[1])

\* a function that declares an annotation of the signature's key was
\* synthesized and then compared with itself: no update needed
C19_Witness ==
    /\ sig.pc = "checked"
    /\ sig.via = "synthesis"
    /\ forgedBy(sig.function) # Nil
    /\ sig.incoming = sig.function
    /\ ~sig.result

\* C20: statefulsetNeedsUpdate answers false exactly when the signature is
\* there, is not empty, parses, and decodes to a spec structurally equal to
\* the incoming one; a missing, empty or unparsable signature makes it answer
\* true; two signatures that differ as strings and decode to equal specs
\* make it answer false.
C20_ChangeDetection ==
    sig.pc = "checked" =>
        /\ (sig.kind \in {"missing", "empty", "unparsable"} => sig.result)
        /\ (sig.kind = "encoded" \/ sig.via \in {"synthesis", "update"} =>
               (sig.result <=> sig.function # sig.incoming))
        /\ (~sig.result <=>
               /\ annotationFunctionSpec \in DOMAIN sig.statefulset.annotations
               /\ signatureOf(sig.statefulset) # <<>>
               /\ Unmarshal(signatureOf(sig.statefulset)).ok
               /\ Unmarshal(signatureOf(sig.statefulset)).spec = sig.incoming)

\* a stored signature that is not the string the incoming spec encodes to
\* and yet decodes to that spec: no update needed
C20_Witness ==
    /\ sig.pc = "checked"
    /\ sig.via = "cluster"
    /\ sig.kind = "encoded"
    /\ signatureOf(sig.statefulset) # Marshal(sig.incoming)
    /\ sig.incoming.annotations # Nil
    /\ ~sig.result

\* C28: for every FunctionSpec, one whose own annotations hold the key
\* prometheus.io.scrape included, the annotations makeAnnotations produces
\* hold prometheus.io.scrape with the value "false".
C28_MetricsDisabledMarker ==
    (sig.pc \in {"written", "checked"} /\ sig.via = "synthesis") =>
        /\ "prometheus.io.scrape" \in DOMAIN sig.statefulset.annotations
        /\ sig.statefulset.annotations["prometheus.io.scrape"] = <<"false">>

\* a labelled StatefulSet stored with 0 replicas or more than MaxReplicas
OutOfBounds(n) == Guarded(store[n]) /\ ~InBounds(store[n])

\* the stored revision of n was written by a writer other than the guard
MovedByAnother(n) == writers[n][Len(writers[n])] \notin Callers \cup {"init"}

\* no Update call of the guard has failed with an error other than a conflict
NoWriteFailure == \A p \in Callers : last[p].valid => last[p].updateErr # "error"

\* the revision obj was written by the guard
OwnWrite(obj) == writers[obj.name][obj.rv] \in Callers

Elements(seq) == {seq[i] : i \in 1..Len(seq)}

\* the runs of the pipeline made so far through newStatefulSet
SynthesisRuns ==
    IF pipe.pc # "run" THEN {}
    ELSE {i \in 1..Len(pipe.runs) : pipe.runs[i].via = "synthesis"}

\* the StatefulSet newStatefulSet makes of function for run i
Rendered(function, i) ==
    statefulsetSpec(function, pipe.runs[i].found, existingSecrets,
                    pipe.functionFactory, pipe.runs[i].iteration).statefulset

\* C23: when the probes or the resources of the function do not parse,
\* newStatefulSet does not fail: it logs a warning and returns a complete
\* StatefulSet in which the probes or the resources have their default value
\* and every other field is as for a valid spec.
C23_SynthesisRecoversParseFailures ==
    \A i \in SynthesisRuns :
        LET run == pipe.runs[i] IN
        /\ run.statefulset # Nil
        /\ createResources(pipe.function).err =>
              /\ "resources" \in Elements(run.warnings)
              /\ run.statefulset[1].resources = NoResources
              /\ run.statefulset = Rendered([pipe.function EXCEPT !.limits = Nil], i)
        /\ MakeProbes(pipe.function).err =>
              /\ "probes" \in Elements(run.warnings)
              /\ run.statefulset[1].probes = DefaultProbes
              /\ LET valid == Rendered([pipe.function EXCEPT !.annotations = Nil], i)[1] IN
                 [run.statefulset[1] EXCEPT !.annotations = valid.annotations] = valid

\* a function whose limits do not parse and one whose probe delay does not
\* parse were synthesized over a StatefulSet found in the cluster
C23_Witness ==
    \E i \in SynthesisRuns :
        /\ pipe.runs[i].found # Nil
        /\ createResources(pipe.function).err
        /\ MakeProbes(pipe.function).err
        /\ pipe.function.secrets = Some(<<"pullsecret", "testsecret">>)
        /\ pipe.runs[i].statefulset # Nil
        /\ pipe.runs[i].statefulset[1].resources = NoResources
        /\ Len(pipe.runs[i].statefulset[1].volumes) > 0

\* the runs of the pipeline that took the same path as the run before them,
\* both producing a StatefulSet
RepeatedRuns ==
    IF pipe.pc # "run" THEN {}
    ELSE {i \in 2..Len(pipe.runs) :
            /\ pipe.runs[i].via = pipe.runs[i - 1].via
            /\ pipe.runs[i].statefulset # Nil
            /\ pipe.runs[i - 1].statefulset # Nil}

\* the labels of a StatefulSet without the timestamp-derived uid
withoutUid(labels) == [k \in DOMAIN labels \ {"uid"} |-> labels[k]]

\* C27: the pipeline of synthesis, security policy and secret projection run
\* twice with the same FunctionSpec, policy flags and resolved secrets, the
\* second run starting from the result of the first, yields a StatefulSet
\* identical to the result of the first run except for the uid label.
C27_ReconcileIdempotence ==
    \A i \in RepeatedRuns :
        LET first == pipe.runs[i - 1].statefulset[1]
            second == pipe.runs[i].statefulset[1] IN
        /\ pipe.runs[i].found = pipe.runs[i - 1].statefulset
        /\ [second EXCEPT !.labels = first.labels] = first
        /\ withoutUid(second.labels) = withoutUid(first.labels)

\* the store calls of the handler with the operation op, in order
CallsOf(op) == SelectSeq(hnd.calls, LAMBDA c : c.op = op)

\* a step before the Update of the StatefulSet returns an error for the
\* request and the StatefulSet found: the Get, the resources, the secrets, the
\* probes or the profiles
StepBeforeWriteFails(request, found) ==
    \/ found = Nil
    \/ /\ found[1].containers > 0
       /\ \/ createResources(request).err
          \/ \E i \in 1..Len(requestedSecrets(request)) :
                 requestedSecrets(request)[i] \notin DOMAIN existingSecrets
          \/ MakeProbes(request).err
          \/ GetProfilesToRemove([cancelled |-> FALSE],
                                 buildAnnotations([spec |-> specOf(request)]),
                                 found[1].annotations).err
          \/ GetProfiles([cancelled |-> FALSE],
                         buildAnnotations([spec |-> specOf(request)])).err

\* C21: an update request makes one Get of the StatefulSet and at most one
\* Update of it, the Update after the Get; when the Get or a step between the
\* two (resources, secrets, probes, profiles) returns an error no Update is
\* made, and the stored StatefulSet is still the one that was there.
C21_SingleConditionalWrite ==
    hnd.pc # "idle" =>
        /\ Len(CallsOf("Get StatefulSet")) <= 1
        /\ Len(CallsOf("Update StatefulSet")) <= 1
        /\ hnd.pc # "start" => Len(CallsOf("Get StatefulSet")) = 1
        /\ \A i \in 1..Len(hnd.calls) :
               hnd.calls[i].op = "Update StatefulSet" =>
                   \E j \in 1..(i - 1) : /\ hnd.calls[j].op = "Get StatefulSet"
                                         /\ hnd.calls[j].applied
        /\ (StepBeforeWriteFails(hnd.request, hnd.start) \/ hnd.made.err # "none") =>
               /\ CallsOf("Update StatefulSet") = <<>>
               /\ hnd.wrote = Nil
               /\ ~hnd.raced => hnd.cluster.statefulset = hnd.start

\* a request whose probe delay does not parse has been served to its end with
\* the StatefulSet found
C21_Witness ==
    /\ hnd.pc = "done"
    /\ hnd.start # Nil
    /\ MakeProbes(hnd.request).err
    /\ ~createResources(hnd.request).err
    /\ hnd.made.err = "probes"
    /\ Len(CallsOf("Get StatefulSet")) = 1
    /\ hnd.cluster.statefulset = hnd.start

\* C22: when the resources of an update request do not parse,
\* updateStatefulSetSpec returns the validation error with the bad-request
\* status to its caller and makes no Update of the StatefulSet.
C22_UpdateAbortsOnParseFailure ==
    /\ hnd.pc \notin {"idle", "start", "got"}
    /\ hnd.fetched # Nil
    /\ hnd.fetched[1].containers > 0
    /\ createResources(hnd.request).err
    => /\ hnd.pc = "done"
       /\ hnd.returned = [err |-> "resources", httpStatus |-> 400]
       /\ CallsOf("Update StatefulSet") = <<>>
       /\ hnd.wrote = Nil

\* a request with limits that do not parse, and nothing else wrong, has been
\* answered
C22_Witness ==
    /\ hnd.pc = "done"
    /\ hnd.fetched # Nil
    /\ hnd.request.limits = Some(<<"x">>)
    /\ hnd.request.annotations = Nil
    /\ hnd.request.secrets = Nil
    /\ hnd.returned.httpStatus = 400
    /\ CallsOf("Update StatefulSet") = <<>>

\* the annotations the function of the runs declares now
AnnotationsNow == buildAnnotations([spec |-> specOf(pipe.function)])

\* the annotations of the StatefulSet a run found, nil when it found none
AnnotationsBefore(run) == IF run.found = Nil THEN <<>> ELSE run.found[1].annotations

\* the profiles declared before a run but not now
DeclaredBeforeNotNow(run) ==
    {profileNames(AnnotationsBefore(run))[i] :
        i \in {j \in 1..Len(profileNames(AnnotationsBefore(run))) :
                  \A k \in 1..Len(profileNames(AnnotationsNow)) :
                      profileNames(AnnotationsNow)[k] #
                          profileNames(AnnotationsBefore(run))[j]}}

\* the profiles a run called RemoveProfile for
RemovedBy(run) ==
    {run.calls[i].profile : i \in {j \in 1..Len(run.calls) : run.calls[j].op = "RemoveProfile"}}

\* the snapshot of a run is the annotations of the StatefulSet it found
SnapshotTaken(run) == run.found # Nil => run.current = AnnotationsBefore(run)

\* no ApplyProfile of a run comes before a RemoveProfile of it
RemovesFirst(run) ==
    \A i, j \in 1..Len(run.calls) :
        (run.calls[i].op = "ApplyProfile" /\ run.calls[j].op = "RemoveProfile") => j < i

\* the runs that went through their profile steps
CompletedRuns == {i \in 1..Len(pipe.runs) : pipe.runs[i].err = "none"}

\* C24 as stated: on every reconcile the profiles to remove are computed
\* against the annotations the StatefulSet had before they were overwritten,
\* RemoveProfile is called for exactly the profiles declared before but not
\* now, and every RemoveProfile comes before any ApplyProfile.
C24_ProfileDiffOrdering ==
    pipe.pc = "run" =>
        \A i \in CompletedRuns :
            /\ SnapshotTaken(pipe.runs[i])
            /\ RemovedBy(pipe.runs[i]) = DeclaredBeforeNotNow(pipe.runs[i])
            /\ RemovesFirst(pipe.runs[i])

\* C24 amended: on every reconcile that goes through its profile steps the
\* profiles to remove are computed against the annotations the StatefulSet
\* had before they were overwritten, RemoveProfile is called only for
\* profiles declared before but not now, for every one of them when the
\* lookup of the profiles to remove returns no error, and every
\* RemoveProfile comes before any ApplyProfile.
C24_ProfileDiffOrderingResolved ==
    pipe.pc = "run" =>
        \A i \in CompletedRuns :
            /\ SnapshotTaken(pipe.runs[i])
            /\ RemovedBy(pipe.runs[i]) \subseteq DeclaredBeforeNotNow(pipe.runs[i])
            /\ ~GetProfilesToRemove([cancelled |-> FALSE], AnnotationsNow,
                                    AnnotationsBefore(pipe.runs[i])).err
                   => RemovedBy(pipe.runs[i]) = DeclaredBeforeNotNow(pipe.runs[i])
            /\ RemovesFirst(pipe.runs[i])

\* an update has removed p1 and then applied p2, with a snapshot that differs
\* from the annotations it wrote
C24_Witness ==
    /\ pipe.pc = "run"
    /\ \E i \in CompletedRuns :
           /\ pipe.runs[i].via = "update"
           /\ pipe.runs[i].calls = <<[op |-> "RemoveProfile", profile |-> "p1"],
                                     [op |-> "ApplyProfile", profile |-> "p2"]>>
           /\ pipe.runs[i].current # AnnotationsNow
           /\ pipe.runs[i].statefulset[1].fragments = {"p2"}

\* the update request names a profile that the profile store does not hold,
\* and nothing else of it fails
OnlyProfileUnresolved ==
    /\ hnd.fetched # Nil
    /\ hnd.fetched[1].containers > 0
    /\ \E i \in 1..Len(profileNames(hnd.annotations)) :
           profileNames(hnd.annotations)[i] \notin ProfileStore
    /\ ~createResources(hnd.request).err
    /\ ~MakeProbes(hnd.request).err
    /\ \A i \in 1..Len(requestedSecrets(hnd.request)) :
           requestedSecrets(hnd.request)[i] \in DOMAIN existingSecrets

\* C25: a profile that cannot be resolved is not fatal: an update that names
\* one still goes on to the Update of the StatefulSet and returns no error
\* for the profile to its caller.
C25_ProfileFailureNonFatal ==
    (hnd.pc = "done" /\ OnlyProfileUnresolved) =>
        /\ hnd.made.err = "none"
        /\ Len(CallsOf("Update StatefulSet")) = 1

\* C26: when the caller's context is cancelled before the Get or the Update
\* of the handler has returned, the reconcile is cancelled: no Update issued
\* after the cancellation, of the StatefulSet or of the Service, is applied
\* to the store.
C26_CancellationStopsWrites ==
    \A i \in 1..Len(hnd.calls) :
        (hnd.calls[i].op \in {"Update StatefulSet", "Update Service"} /\ hnd.calls[i].cancelled)
            => ~hnd.calls[i].applied

\* the store calls on the Service, in order
ServiceCalls == SelectSeq(hnd.calls, LAMBDA c : c.op \in {"Get Service", "Update Service"})

\* C29: the handler touches the Service only after its Update of the
\* StatefulSet was applied; when the update of the StatefulSet fails the
\* Service is never touched; and when the Get or the Update of the Service
\* fails the StatefulSet stays as the handler wrote it.
C29_StatefulSetThenService ==
    hnd.pc # "idle" =>
        /\ \A i \in 1..Len(hnd.calls) :
               hnd.calls[i].op \in {"Get Service", "Update Service"} =>
                   \E j \in 1..(i - 1) : /\ hnd.calls[j].op = "Update StatefulSet"
                                         /\ hnd.calls[j].applied
        /\ (hnd.pc = "done" /\ hnd.wrote = Nil) =>
               /\ ServiceCalls = <<>>
               /\ hnd.cluster.service \in {Nil, Some(StoredService)}
        /\ hnd.serviceErr # "none" =>
               /\ hnd.wrote # Nil
               /\ hnd.cluster.statefulset = hnd.wrote
               /\ hnd.calls[Len(hnd.calls)].op \in {"Get Service", "Update Service"}
               /\ hnd.cluster.service \in {Nil, Some(StoredService)}

\* the handler has ended with the StatefulSet updated and the Service as it
\* was, its Update having failed
C29_Witness ==
    /\ hnd.pc = "done"
    /\ hnd.serviceErr = "update"
    /\ hnd.wrote # Nil
    /\ hnd.cluster.statefulset = hnd.wrote
    /\ hnd.cluster.statefulset # hnd.start
    /\ hnd.cluster.statefulset[1].annotations = hnd.annotations
    /\ hnd.cluster.service = Some(StoredService)
    /\ StoredService.annotations # hnd.annotations

\* the object caller p hands to applyValidation when it enters: the new
\* object of the notification at the head of the queue, or the object of the
\* list the loop has come to
GivenTo(p) == IF p = "handler" THEN Head(queue).newObj ELSE sweep.list[sweep.i]

\* caller p enters applyValidation in this step
Enters(p) == calls'[p] # calls[p]

\* the clone differs from the observation in the replica count only, the
\* resource version included in what is the same
ReplicasOnly(observed, clone) ==
    /\ clone = [observed EXCEPT !.replicas = clone.replicas]
    /\ clone.rv = observed.rv
    /\ clone.replicas # observed.replicas

\* C31: applyValidation leaves the observed StatefulSet as it was given: the
\* observation of an invocation is the given object from its entry to its
\* return, and the listed objects stay as listed; the object it sends to the
\* store is the observation with another replica count and nothing else
\* changed, under the observation's resource version, so that the store only
\* applies it when that version is still the stored one.
C31_ScaleGuardFrame ==
    [][\A p \in Callers :
          /\ Enters(p) =>
                /\ IF inv'[p].pc = "update"
                     THEN /\ inv'[p].obs = GivenTo(p)
                          /\ ReplicasOnly(GivenTo(p), inv'[p].clone)
                     ELSE /\ last'[p].obs = GivenTo(p)
                          /\ last'[p].sent = Nil
          /\ (inv[p].pc = "update" /\ inv'[p].pc = "update") => inv'[p] = inv[p]
          /\ (inv[p].pc = "update" /\ inv'[p].pc = "idle") =>
                /\ last'[p].obs = inv[p].obs
                /\ last'[p].sent = Some(inv[p].clone)
                /\ ReplicasOnly(last'[p].obs, last'[p].sent[1])
                /\ last'[p].updateErr = "none" =>
                      /\ store[inv[p].obs.name].rv = inv[p].obs.rv
                      /\ store'[inv[p].obs.name] =
                             [inv[p].clone EXCEPT !.rv = inv[p].obs.rv + 1]
                /\ last'[p].updateErr # "none" => store' = store
          /\ sweep'.list = sweep.list]_vars

\* the listener has written the clone of an observation with 0 replicas, and
\* the loop, holding the object as it was listed, has had its clone rejected
C31_Witness ==
    /\ last["handler"].valid
    /\ last["handler"].obs.replicas = Some(0)
    /\ last["handler"].sent = Some([last["handler"].obs EXCEPT !.replicas = Some(1)])
    /\ last["handler"].updateErr = "none"
    /\ last["sweep"].valid
    /\ last["sweep"].obs = sweep.list[1]
    /\ last["sweep"].sent = Some([sweep.list[1] EXCEPT !.replicas = Some(1)])
    /\ last["sweep"].updateErr = "conflict"
    /\ store[sweep.list[1].name].rv > sweep.list[1].rv

\* the labels of the pod template satisfy the selector of the StatefulSet
SelectorMatches(statefulset) ==
    \A k \in DOMAIN statefulset.selector :
        /\ k \in DOMAIN statefulset.labels
        /\ statefulset.labels[k] = statefulset.selector[k]

\* C32: for every function, whatever labels it declares, the pod-template
\* labels of the StatefulSet newStatefulSet returns satisfy its selector
\* (app and controller, the function's name) and carry faas_function with the
\* function's name.
C32_SelectorConsistency ==
    pipe.pc = "run" =>
        \A i \in SynthesisRuns :
            LET statefulset == pipe.runs[i].statefulset[1] IN
            /\ statefulset.selector = [k \in {"app", "controller"} |-> <<pipe.function.name>>]
            /\ SelectorMatches(statefulset)
            /\ statefulset.labels["faas_function"] = <<pipe.function.name>>

\* a field of an optional security context, nil when there is no context
ContextField(securityContext, field) ==
    IF securityContext = Nil THEN Nil ELSE securityContext[1][field]

\* the factory's operation op is called in this step
FactoryCalls(op) ==
    /\ factory.pc = "run"
    /\ factory'.n = factory.n + 1
    /\ factory'.last.op = op

\* a run is added to the runs of the reconcile in this step
RunAdded == pipe.pc = "run" /\ Len(pipe'.runs) = Len(pipe.runs) + 1

\* C33: ConfigureReadOnlyRootFilesystem leaves every volume and mount not
\* named temp, the secrets volume and mount among them, and the fields
\* AllowPrivilegeEscalation and RunAsUser of the security context as they
\* were; ConfigureContainerUserID changes nothing but RunAsUser; and the
\* container of the StatefulSet newStatefulSet returns has
\* AllowPrivilegeEscalation = false, which an update leaves as it found it.
C33_SecurityPolicyFrame ==
    [][/\ FactoryCalls("ConfigureReadOnlyRootFilesystem") =>
            /\ removeVolume("temp", factory'.statefulset.volumes) =
                   removeVolume("temp", factory.statefulset.volumes)
            /\ removeVolumeMount("temp", factory'.statefulset.mounts) =
                   removeVolumeMount("temp", factory.statefulset.mounts)
            /\ \A field \in {"allowPrivilegeEscalation", "runAsUser"} :
                   ContextField(factory'.statefulset.securityContext, field) =
                       ContextField(factory.statefulset.securityContext, field)
            /\ factory'.statefulset.imagePullSecrets = factory.statefulset.imagePullSecrets
       /\ FactoryCalls("ConfigureContainerUserID") =>
            /\ [factory'.statefulset EXCEPT !.securityContext = Nil] =
                   [factory.statefulset EXCEPT !.securityContext = Nil]
            /\ \A field \in {"allowPrivilegeEscalation", "readOnlyRootFilesystem"} :
                   ContextField(factory'.statefulset.securityContext, field) =
                       ContextField(factory.statefulset.securityContext, field)
       /\ RunAdded =>
            LET run == pipe'.runs[Len(pipe'.runs)] IN
            /\ run.via = "synthesis" =>
                   ContextField(run.statefulset[1].securityContext,
                                "allowPrivilegeEscalation") = Some(FALSE)
            /\ (run.via = "update" /\ run.err = "none") =>
                   ContextField(run.statefulset[1].securityContext,
                                "allowPrivilegeEscalation") =
                       ContextField(run.found[1].securityContext,
                                    "allowPrivilegeEscalation")]_vars

\* ConfigureReadOnlyRootFilesystem has just added the temp volume to a
\* StatefulSet that holds the secrets volume and a security context with
\* AllowPrivilegeEscalation and RunAsUser set, all of which are still there
C33_Witness ==
    /\ factory.pc = "run"
    /\ factory.last.op = "ConfigureReadOnlyRootFilesystem"
    /\ factory.last.arg = TRUE
    /\ factory.last.changed
    /\ factory.userID
    /\ \E i \in 1..Len(factory.statefulset.volumes) :
           factory.statefulset.volumes[i].name = ProjectedSecrets
    /\ \E i \in 1..Len(factory.statefulset.mounts) :
           factory.statefulset.mounts[i].name = ProjectedSecrets
    /\ \E i \in 1..Len(factory.statefulset.volumes) :
           factory.statefulset.volumes[i] = TempVolume
    /\ factory.statefulset.securityContext # Nil
    /\ factory.statefulset.securityContext[1].allowPrivilegeEscalation = Some(TRUE)
    /\ factory.statefulset.securityContext[1].runAsUser = Some(SecurityContextUserID)
    /\ factory.statefulset.securityContext[1].readOnlyRootFilesystem = Some(TRUE)

====
